---- MODULE Spec2Model ----
(***************************************************************************)
(* A model of src/src/z3_solver.rs: the Z3Solver session (new, assert,     *)
(* set_backtrack_position, backtrack, solve) and the four mutually         *)
(* recursive lowerings of an Expression to a Z3 term (get_as_z3_ast,       *)
(* get_as_numeric_z3_ast, get_as_bool_z3_ast, get_as_bv_z3_ast).           *)
(*                                                                         *)
(* Z3 terms are records: an operator name, a sort, the argument terms and, *)
(* for leaves, a numeral, a symbol name or a float value.  Two terms are   *)
(* the same Z3 ast exactly when the records are equal (Z3 hash-conses).    *)
(***************************************************************************)
EXTENDS Integers, Sequences, FiniteSets, TLC

(***************************************************************************)
(* Sorts (struct Z3Solver, fields any_sort .. f64_sort; Z3_mk_bv_sort).    *)
(***************************************************************************)
Sort(k, w) == [k |-> k, w |-> w]
any_sort == Sort("Any", 0)
bool_sort == Sort("Bool", 0)
int_sort == Sort("Int", 0)
f32_sort == Sort("F32", 0)
f64_sort == Sort("F64", 0)
Z3_mk_bv_sort(num_bits) == Sort("BV", num_bits)
rm_sort == Sort("RoundingMode", 0)
NoSort == Sort("None", 0)

IsFloatSort(s) == s \in {f32_sort, f64_sort}
IsBvSort(s) == s.k = "BV"

(***************************************************************************)
(* Float values.  A value is NaN, or a sign, a biased exponent and a       *)
(* mantissa (kept as the list of its 16-bit pieces, high piece first).     *)
(***************************************************************************)
NoFp == [nan |-> FALSE, neg |-> FALSE, exp |-> 0, man |-> <<>>]
FpNaN == [nan |-> TRUE, neg |-> FALSE, exp |-> 0, man |-> <<>>]
FpVal(neg, exp, man) == [nan |-> FALSE, neg |-> neg, exp |-> exp, man |-> man]
FpIsZero(v) == ~v.nan /\ v.exp = 0 /\ \A i \in 1..Len(v.man) : v.man[i] = 0

(***************************************************************************)
(* Terms.                                                                  *)
(***************************************************************************)
Term(op, sort, args, num, name, fp) ==
    [op |-> op, sort |-> sort, args |-> args, num |-> num, name |-> name, fp |-> fp]
App(op, sort, args) == Term(op, sort, args, 0, "", NoFp)
\* A failed Z3 call: the context's default error handler ends the process.
Z3Error == App("error", NoSort, <<>>)
\* A failed Rust assert!/assert_eq!: the lowering panics and returns nothing.
Panic == App("panic", NoSort, <<>>)
IsFatal(t) == t.op \in {"error", "panic"}
FirstFatal(args) ==
    LET i == CHOOSE j \in 1..Len(args) :
                 IsFatal(args[j]) /\ \A k \in 1..(j-1) : ~IsFatal(args[k])
    IN args[i]
\* A Z3 application: the arguments must be terms and well sorted.
Checked(op, sort, args, wellSorted) ==
    IF \E i \in 1..Len(args) : IsFatal(args[i]) THEN FirstFatal(args)
    ELSE IF ~wellSorted THEN Z3Error
    ELSE App(op, sort, args)
AllOfSort(args, s) == \A i \in 1..Len(args) : args[i].sort = s

Z3_mk_true == App("true", bool_sort, <<>>)
Z3_mk_false == App("false", bool_sort, <<>>)
\* Z3_mk_int, Z3_mk_int64, Z3_mk_unsigned_int64 and Z3_mk_numeral all give the
\* numeral of the mathematical integer v.
Z3_mk_int(v, sort) == Term("num", sort, <<>>, v, "", NoFp)
Z3_mk_const(name, sort) == Term("const", sort, <<>>, 0, name, NoFp)
\* Mutant: the fresh constants of a context all bear the same name.
FreshConstReused(prefix, sort, k) == Term("fresh", sort, <<>>, 0, prefix, NoFp)
\* The fresh constant the k-th Z3_mk_fresh_const call of a session returns.
\* Z3 names it prefix!n with n drawn from a counter of its own, which its
\* other calls advance too; a term is known here by k, not by that name.
Z3_mk_fresh_const(prefix, sort, k) == Term("fresh", sort, <<>>, k, prefix, NoFp)
Z3_mk_fpa_numeral(v, sort) == Term("fpnum", sort, <<>>, 0, "", v)
Z3_mk_fpa_round_nearest_ties_to_even == App("RNE", rm_sort, <<>>)

Z3_mk_eq(a, b) == Checked("eq", bool_sort, <<a, b>>, a.sort = b.sort)
Z3_mk_not(a) == Checked("not", bool_sort, <<a>>, a.sort = bool_sort)
Z3_mk_and(args) == Checked("and", bool_sort, args, AllOfSort(args, bool_sort))
Z3_mk_or(args) == Checked("or", bool_sort, args, AllOfSort(args, bool_sort))
Z3_mk_ite(c, a, b) ==
    Checked("ite", a.sort, <<c, a, b>>, c.sort = bool_sort /\ a.sort = b.sort)

Z3_mk_add(args) == Checked("add", int_sort, args, AllOfSort(args, int_sort))
Z3_mk_sub(args) == Checked("sub", int_sort, args, AllOfSort(args, int_sort))
Z3_mk_mul(args) == Checked("mul", int_sort, args, AllOfSort(args, int_sort))
Z3_mk_div(a, b) == Checked("div", int_sort, <<a, b>>, AllOfSort(<<a, b>>, int_sort))
Z3_mk_rem(a, b) == Checked("rem", int_sort, <<a, b>>, AllOfSort(<<a, b>>, int_sort))
Z3_mk_unary_minus(a) == Checked("neg", int_sort, <<a>>, a.sort = int_sort)
Z3_mk_ge(a, b) == Checked("ge", bool_sort, <<a, b>>, AllOfSort(<<a, b>>, int_sort))
Z3_mk_gt(a, b) == Checked("gt", bool_sort, <<a, b>>, AllOfSort(<<a, b>>, int_sort))
Z3_mk_le(a, b) == Checked("le", bool_sort, <<a, b>>, AllOfSort(<<a, b>>, int_sort))
Z3_mk_lt(a, b) == Checked("lt", bool_sort, <<a, b>>, AllOfSort(<<a, b>>, int_sort))

FpPair(a, b) == IsFloatSort(a.sort) /\ a.sort = b.sort
Z3_mk_fpa_arith(op, rm, a, b) == Checked(op, a.sort, <<rm, a, b>>, FpPair(a, b))
Z3_mk_fpa_rem(a, b) == Checked("fpa_rem", a.sort, <<a, b>>, FpPair(a, b))
Z3_mk_fpa_neg(a) == Checked("fpa_neg", a.sort, <<a>>, IsFloatSort(a.sort))
Z3_mk_fpa_is_nan(a) == Checked("fpa_is_nan", bool_sort, <<a>>, IsFloatSort(a.sort))
Z3_mk_fpa_cmp(op, a, b) == Checked(op, bool_sort, <<a, b>>, FpPair(a, b))

BvPair(a, b) == IsBvSort(a.sort) /\ a.sort = b.sort
Z3_mk_bvop(op, a, b) == Checked(op, a.sort, <<a, b>>, BvPair(a, b))
Z3_mk_bv2int(a) == Checked("bv2int", int_sort, <<a>>, IsBvSort(a.sort))
\* The overflow predicates of the Z3 API; num holds the is_signed argument.
Z3_mk_bv_pred(op, a, b, is_signed) ==
    IF IsFatal(a) \/ IsFatal(b) THEN FirstFatal(<<a, b>>)
    ELSE IF ~BvPair(a, b) THEN Z3Error
    ELSE Term(op, bool_sort, <<a, b>>, IF is_signed THEN 1 ELSE 0, "", NoFp)

(***************************************************************************)
(* Expressions (crate::expression::Expression, read by reference).  Every  *)
(* node is a record of one shape; the fields a kind does not use keep a    *)
(* default.                                                                *)
(***************************************************************************)
Node(kind, args, result_type, cd, val, bits, path, var_type) ==
    [kind |-> kind, args |-> args, result_type |-> result_type, cd |-> cd,
     val |-> val, bits |-> bits, path |-> path, var_type |-> var_type]
Unary(kind, operand) == Node(kind, <<operand>>, "", "", 0, <<>>, "", "")
Binary(kind, left, right) == Node(kind, <<left, right>>, "", "", 0, <<>>, "", "")
Typed(kind, left, right, result_type) ==
    Node(kind, <<left, right>>, result_type, "", 0, <<>>, "", "")
ConditionalExpression(condition, consequent, alternate) ==
    Node("ConditionalExpression", <<condition, consequent, alternate>>, "", "", 0, <<>>, "", "")
\* CompileTimeConstant(ConstantDomain::cd(..)): cd is the variant, val an
\* integer payload, bits the raw bit pattern of a float in 16-bit pieces.
Const(cd, val) == Node("CompileTimeConstant", <<>>, "", cd, val, <<>>, "", "")
FloatConst(cd, bits) == Node("CompileTimeConstant", <<>>, "", cd, 0, bits, "", "")
Variable(path, var_type) == Node("Variable", <<>>, "", "", 0, <<>>, path, var_type)
Reference(path) == Node("Reference", <<>>, "", "", 0, <<>>, path, "")
Top == Node("Top", <<>>, "", "", 0, <<>>, "", "")
\* A node kind none of the lowerings names (it reaches their `_` arms).
Bottom == Node("Bottom", <<>>, "", "", 0, <<>>, "", "")

Left(e) == e.args[1]
Right(e) == e.args[2]
Operand(e) == e.args[1]

SignedTypes == {"I8", "I16", "I32", "I64", "I128", "Isize"}
UnsignedTypes == {"U8", "U16", "U32", "U64", "U128", "Usize"}
IntegerVarTypes == {"Char"} \cup SignedTypes \cup UnsignedTypes

\* ExpressionType::bit_length and ExpressionType::is_signed_integer.
bit_length(t) ==
    CASE t \in {"I8", "U8"} -> 8
      [] t \in {"I16", "U16"} -> 16
      [] t \in {"I32", "U32"} -> 32
      [] t \in {"I64", "U64", "Isize", "Usize"} -> 64
      [] t \in {"I128", "U128"} -> 128
is_signed_integer(t) == t \in SignedTypes

\* format!("{:?}", path) and format!("&{:?}", path).
PathName(path) == path
RefName(path) == "&" \o path

(***************************************************************************)
(* f32::from_bits / f64::from_bits followed by Z3_mk_fpa_numeral_*: the    *)
(* value of a raw bit pattern.  bits lists the pattern's 16-bit pieces,    *)
(* high piece first (two for f32, four for f64).                           *)
(***************************************************************************)
AllZero(s) == \A i \in 1..Len(s) : s[i] = 0
f32_from_bits(bits) ==
    LET hi == bits[1]
        exp == (hi \div 128) % 256
        man == <<hi % 128, bits[2]>>
    IN IF exp = 255 /\ ~AllZero(man) THEN FpNaN
       ELSE FpVal(hi \div 32768 = 1, exp, man)
f64_from_bits(bits) ==
    LET hi == bits[1]
        exp == (hi \div 16) % 2048
        man == <<hi % 16, bits[2], bits[3], bits[4]>>
    IN IF exp = 2047 /\ ~AllZero(man) THEN FpNaN
       ELSE FpVal(hi \div 32768 = 1, exp, man)

(***************************************************************************)
(* The state of a Z3 context that the lowerings change: the number of      *)
(* Z3_mk_fresh_const calls they have made and the int2bv declarations.     *)
(* Z3 keeps one int2bv declaration per width, made by the first            *)
(* Z3_mk_int2bv of that width with the sort of its argument as domain;     *)
(* int2bv is the set of the pairs <<width, domain>> declared so far.       *)
(***************************************************************************)
Context(fresh, int2bv) == [fresh |-> fresh, int2bv |-> int2bv]
\* The context as Z3Solver::new() leaves it.
NewContext == Context(0, {})
\* The context after a Z3_mk_fresh_const.
MadeFresh(n) == [n EXCEPT !.fresh = @ + 1]
\* The context after a Z3_mk_int2bv(num_bits, a) that returned a term.
Int2bvCalled(n, num_bits, a) ==
    IF \E d \in n.int2bv : d[1] = num_bits THEN n
    ELSE [n EXCEPT !.int2bv = @ \cup {<<num_bits, a.sort>>}]

\* Z3_mk_int2bv in a context with the declarations decls: the first call of
\* a width takes an argument of any sort, a later one is a sort error unless
\* its argument has the sort of the first.
Z3_mk_int2bv(num_bits, a, decls) ==
    Checked("int2bv", Z3_mk_bv_sort(num_bits), <<a>>,
            \A d \in decls : d[1] = num_bits => d[2] = a.sort)

(***************************************************************************)
(* The result of one lowering call: the term, the is-float flag (only the  *)
(* Numeric view sets it) and n, the state of the context after the call.   *)
(* The n a lowering takes is the state of the context as the call finds    *)
(* it.                                                                     *)
(***************************************************************************)
Res(ast, f, n) == [ast |-> ast, f |-> f, n |-> n]
\* Rust evaluates the left lowering, then the right one, then the arm's body;
\* the first fatal outcome ends the call.
Then2(l, r, body) == IF IsFatal(l.ast) THEN l ELSE IF IsFatal(r.ast) THEN r ELSE body
Then1(o, body) == IF IsFatal(o.ast) THEN o ELSE body

zero == Z3_mk_int(0, int_sort)
one == Z3_mk_int(1, int_sort)
nearest_even == Z3_mk_fpa_round_nearest_ties_to_even
empty_str == ""

\* Mutant: the unsigned subtraction consults both predicates, as the signed.
SubOverflowsArmBoth(l, r, is_signed) ==
    Then2(l, r,
          Res(Z3_mk_not(Z3_mk_and(
                  <<Z3_mk_bv_pred("bvsub_no_overflow", l.ast, r.ast, TRUE),
                    Z3_mk_bv_pred("bvsub_no_underflow", l.ast, r.ast, is_signed)>>)),
              FALSE, r.n))

\* Mutant: the signed predicates leave the no-underflow predicate out.
OverflowsArmNoUnderflow(op, l, r, is_signed) ==
    Then2(l, r,
          Res(Z3_mk_not(Z3_mk_bv_pred(op \o "_no_overflow", l.ast, r.ast, is_signed)),
              FALSE, r.n))

\* get_as_z3_ast, arms AddOverflows / MulOverflows (op is "bvadd" or "bvmul").
OverflowsArm(op, l, r, is_signed) ==
    LET does_not_overflow ==
            Z3_mk_bv_pred(op \o "_no_overflow", l.ast, r.ast, is_signed)
        does_not_underflow ==
            Z3_mk_bv_pred(op \o "_no_underflow", l.ast, r.ast, TRUE)
        stays_in_range == Z3_mk_and(<<does_not_overflow, does_not_underflow>>)
    IN Then2(l, r, Res(IF is_signed THEN Z3_mk_not(stays_in_range)
                       ELSE Z3_mk_not(does_not_overflow), FALSE, r.n))

\* get_as_z3_ast, arm SubOverflows.
SubOverflowsArm(l, r, is_signed) ==
    LET does_not_underflow ==
            Z3_mk_bv_pred("bvsub_no_underflow", l.ast, r.ast, is_signed)
        does_not_overflow ==
            Z3_mk_bv_pred("bvsub_no_overflow", l.ast, r.ast, TRUE)
        stays_in_range == Z3_mk_and(<<does_not_overflow, does_not_underflow>>)
    IN Then2(l, r, Res(IF is_signed THEN Z3_mk_not(stays_in_range)
                       ELSE Z3_mk_not(does_not_underflow), FALSE, r.n))

\* get_as_z3_ast, arm CompileTimeConstant.
ConstantArm(e, n) ==
    CASE e.cd = "Char" -> Res(Z3_mk_int(e.val % 65536, int_sort), FALSE, n)
      [] e.cd = "False" -> Res(Z3_mk_false, FALSE, n)
      [] e.cd = "I128" -> Res(Z3_mk_int(e.val, int_sort), FALSE, n)
      [] e.cd = "F32" -> Res(Z3_mk_fpa_numeral(f32_from_bits(e.bits), f32_sort), FALSE, n)
      [] e.cd = "F64" -> Res(Z3_mk_fpa_numeral(f64_from_bits(e.bits), f64_sort), FALSE, n)
      [] e.cd = "U128" -> Res(Z3_mk_int(e.val, int_sort), FALSE, n)
      [] e.cd = "True" -> Res(Z3_mk_true, FALSE, n)
      [] OTHER -> Res(Z3_mk_fresh_const(empty_str, any_sort, n.fresh), FALSE, MadeFresh(n))

\* get_as_z3_ast, arms Equals / GreaterOrEqual / GreaterThan / LessOrEqual /
\* LessThan: assert_eq!(lf, rf), then the IEEE or the integer predicate.
FpaCmpOp(kind) ==
    CASE kind = "Equals" -> "fpa_eq"
      [] kind = "GreaterOrEqual" -> "fpa_geq"
      [] kind = "GreaterThan" -> "fpa_gt"
      [] kind = "LessOrEqual" -> "fpa_leq"
      [] kind = "LessThan" -> "fpa_lt"
IntCmp(kind, a, b) ==
    CASE kind = "Equals" -> Z3_mk_eq(a, b)
      [] kind = "GreaterOrEqual" -> Z3_mk_ge(a, b)
      [] kind = "GreaterThan" -> Z3_mk_gt(a, b)
      [] kind = "LessOrEqual" -> Z3_mk_le(a, b)
      [] kind = "LessThan" -> Z3_mk_lt(a, b)
CompareArm(kind, l, r) ==
    Then2(l, r,
          IF l.f # r.f THEN Res(Panic, FALSE, r.n)
          ELSE IF l.f THEN Res(Z3_mk_fpa_cmp(FpaCmpOp(kind), l.ast, r.ast), FALSE, r.n)
          ELSE Res(IntCmp(kind, l.ast, r.ast), FALSE, r.n))

\* get_as_z3_ast, arm Ne.
NeArm(l, r) ==
    Then2(l, r,
          IF l.f # r.f THEN Res(Panic, FALSE, r.n)
          ELSE IF l.f
          THEN LET lnan == Z3_mk_fpa_is_nan(l.ast)
                   rnan == Z3_mk_fpa_is_nan(r.ast)
                   eq == Z3_mk_fpa_cmp("fpa_eq", l.ast, r.ast)
                   ne == Z3_mk_not(eq)
               IN Res(Z3_mk_or(<<lnan, rnan, ne>>), FALSE, r.n)
          ELSE Res(Z3_mk_not(Z3_mk_eq(l.ast, r.ast)), FALSE, r.n))

\* Arm Neg of get_as_z3_ast and of get_as_numeric_z3_ast.
NegArm(o) ==
    Then1(o, IF o.f THEN Res(Z3_mk_fpa_neg(o.ast), TRUE, o.n)
             ELSE Res(Z3_mk_unary_minus(o.ast), FALSE, o.n))

\* get_as_z3_ast, arms ShlOverflows / ShrOverflows: assert!(!f), then
\* right >= num_bits over the integers.
ShiftOverflowsArm(r, num_bits) ==
    Then1(r, IF r.f THEN Res(Panic, FALSE, r.n)
             ELSE Res(Z3_mk_ge(r.ast, Z3_mk_int(num_bits, int_sort)), FALSE, r.n))

\* Mutant: every Variable occurrence is a fresh constant of its sort.
VariableArmFresh(e, n) ==
    Res(Z3_mk_fresh_const(PathName(e.path),
                          CASE e.var_type = "Bool" -> bool_sort
                            [] e.var_type \in IntegerVarTypes -> int_sort
                            [] e.var_type = "F32" -> f32_sort
                            [] e.var_type = "F64" -> f64_sort
                            [] OTHER -> any_sort, n.fresh), FALSE, MadeFresh(n))

\* get_as_z3_ast, arm Variable.
VariableArm(e, n) ==
    LET path_symbol == PathName(e.path)
    IN CASE e.var_type = "Bool" -> Res(Z3_mk_const(path_symbol, bool_sort), FALSE, n)
         [] e.var_type \in IntegerVarTypes -> Res(Z3_mk_const(path_symbol, int_sort), FALSE, n)
         [] e.var_type = "F32" -> Res(Z3_mk_const(path_symbol, f32_sort), FALSE, n)
         [] e.var_type = "F64" -> Res(Z3_mk_const(path_symbol, f64_sort), FALSE, n)
         [] e.var_type = "NonPrimitive" ->
              Res(Z3_mk_fresh_const(empty_str, any_sort, n.fresh), FALSE, MadeFresh(n))

\* get_as_numeric_z3_ast, arms Add / Div / Mul / Rem / Sub.
ArithmeticArm(kind, l, r) ==
    Then2(l, r,
          IF l.f # r.f THEN Res(Panic, FALSE, r.n)
          ELSE IF l.f
          THEN Res(CASE kind = "Add" -> Z3_mk_fpa_arith("fpa_add", nearest_even, l.ast, r.ast)
                     [] kind = "Div" -> Z3_mk_fpa_arith("fpa_div", nearest_even, l.ast, r.ast)
                     [] kind = "Mul" -> Z3_mk_fpa_arith("fpa_mul", nearest_even, l.ast, r.ast)
                     [] kind = "Rem" -> Z3_mk_fpa_rem(l.ast, r.ast)
                     [] kind = "Sub" -> Z3_mk_fpa_arith("fpa_sub", nearest_even, l.ast, r.ast),
                   TRUE, r.n)
          ELSE Res(CASE kind = "Add" -> Z3_mk_add(<<l.ast, r.ast>>)
                     [] kind = "Div" -> Z3_mk_div(l.ast, r.ast)
                     [] kind = "Mul" -> Z3_mk_mul(<<l.ast, r.ast>>)
                     [] kind = "Rem" -> Z3_mk_rem(l.ast, r.ast)
                     [] kind = "Sub" -> Z3_mk_sub(<<l.ast, r.ast>>),
                   FALSE, r.n))

\* get_as_numeric_z3_ast, the boolean-node arm: ite(ast, one, zero).
BoolToIntArm(a) == Then1(a, Res(Z3_mk_ite(a.ast, one, zero), FALSE, a.n))
\* get_as_numeric_z3_ast, the bitwise/shift arm: bv2int of the 128-bit term.
BvToIntArm(a) == Then1(a, Res(Z3_mk_bv2int(a.ast), FALSE, a.n))
\* get_as_numeric_z3_ast, arm ConditionalExpression: assert_eq!(cf, af).
NumericConditionalArm(c, a, b) ==
    IF IsFatal(c.ast) THEN c
    ELSE Then2(a, b, IF a.f # b.f THEN Res(Panic, FALSE, b.n)
                     ELSE Res(Z3_mk_ite(c.ast, a.ast, b.ast), a.f, b.n))
\* get_as_bool_z3_ast, the bitwise arm: not (bv2int(bv) = zero).
NonZeroArm(bv) ==
    Then1(bv, Res(Z3_mk_not(Z3_mk_eq(Z3_mk_bv2int(bv.ast), zero)), FALSE, bv.n))
\* get_as_bv_z3_ast, the boolean-node arm: ite(ast, bv_one, bv_zero).
BoolToBvArm(a, num_bits) ==
    LET bv_one == Z3_mk_int2bv(num_bits, one, a.n.int2bv)
        bv_zero == Z3_mk_int2bv(num_bits, zero, Int2bvCalled(a.n, num_bits, one).int2bv)
    IN Then1(a, Res(Z3_mk_ite(a.ast, bv_one, bv_zero), FALSE,
                    Int2bvCalled(a.n, num_bits, one)))
\* get_as_bv_z3_ast, arm CompileTimeConstant: assert!(!f), then int2bv.
BvConstantArm(c, num_bits) ==
    Then1(c, IF c.f THEN Res(Panic, FALSE, c.n)
             ELSE Res(Z3_mk_int2bv(num_bits, c.ast, c.n.int2bv), FALSE,
                      Int2bvCalled(c.n, num_bits, c.ast)))

BooleanKinds == {"And", "Equals", "GreaterOrEqual", "GreaterThan", "LessOrEqual",
                 "LessThan", "Ne", "Not", "Or"}
ArithmeticKinds == {"Add", "Div", "Mul", "Rem", "Sub"}
BitwiseKinds == {"BitAnd", "BitOr", "BitXor"}
OrderingKinds == {"Equals", "GreaterOrEqual", "GreaterThan", "LessOrEqual", "LessThan"}

\* Mutant: the bit-vector of a variable is cut from the integer constant of
\* the same path.
BvVariableArmOfInt(e, num_bits, n) ==
    Res(Z3_mk_int2bv(num_bits, Z3_mk_const(PathName(e.path), int_sort), n.int2bv), FALSE,
        Int2bvCalled(n, num_bits, one))
\* get_as_bv_z3_ast, arm Variable: the constant named by the path, of the
\* bit-vector sort of the requested width.
BvVariableArm(e, num_bits, n) ==
    Res(Z3_mk_const(PathName(e.path), Z3_mk_bv_sort(num_bits)), FALSE, n)

RECURSIVE get_as_z3_ast(_, _)
RECURSIVE get_as_numeric_z3_ast(_, _)
RECURSIVE get_as_bool_z3_ast(_, _)
RECURSIVE get_as_bv_z3_ast(_, _, _)
RECURSIVE LowerCall(_, _, _, _)

get_as_z3_ast(e, n) ==
    CASE e.kind \in ArithmeticKinds \cup {"Reference"} ->
           (LET r == LowerCall("numeric", e, 0, n) IN Res(r.ast, FALSE, r.n))
      [] e.kind \in {"AddOverflows", "MulOverflows", "SubOverflows"} ->
           (LET num_bits == bit_length(e.result_type)
               is_signed == is_signed_integer(e.result_type)
               left_bv == LowerCall("bv", Left(e), num_bits, n)
               right_bv == LowerCall("bv", Right(e), num_bits, left_bv.n)
           IN (CASE e.kind = "AddOverflows" -> OverflowsArm("bvadd", left_bv, right_bv, is_signed)
                 [] e.kind = "MulOverflows" -> OverflowsArm("bvmul", left_bv, right_bv, is_signed)
                 [] e.kind = "SubOverflows" -> SubOverflowsArm(left_bv, right_bv, is_signed)))
      [] e.kind \in {"And", "Or"} ->
           (LET left_ast == LowerCall("bool", Left(e), 0, n)
               right_ast == LowerCall("bool", Right(e), 0, left_ast.n)
           IN Then2(left_ast, right_ast,
                    Res(IF e.kind = "And" THEN Z3_mk_and(<<left_ast.ast, right_ast.ast>>)
                        ELSE Z3_mk_or(<<left_ast.ast, right_ast.ast>>), FALSE, right_ast.n)))
      [] e.kind \in BitwiseKinds -> LowerCall("bv", e, 128, n)
      [] e.kind = "CompileTimeConstant" -> ConstantArm(e, n)
      [] e.kind = "ConditionalExpression" ->
           (LET condition_ast == LowerCall("bool", e.args[1], 0, n)
               consequent_ast == LowerCall("any", e.args[2], 0, condition_ast.n)
               alternate_ast == LowerCall("any", e.args[3], 0, consequent_ast.n)
           IN IF IsFatal(condition_ast.ast) THEN condition_ast
              ELSE Then2(consequent_ast, alternate_ast,
                         Res(Z3_mk_ite(condition_ast.ast, consequent_ast.ast,
                                       alternate_ast.ast), FALSE, alternate_ast.n)))
      [] e.kind \in OrderingKinds ->
           (LET l == LowerCall("numeric", Left(e), 0, n)
               r == LowerCall("numeric", Right(e), 0, l.n)
           IN CompareArm(e.kind, l, r))
      [] e.kind = "Ne" ->
           (LET l == LowerCall("numeric", Left(e), 0, n)
               r == LowerCall("numeric", Right(e), 0, l.n)
           IN NeArm(l, r))
      [] e.kind = "Neg" ->
           (LET o == NegArm(LowerCall("numeric", Operand(e), 0, n))
           IN Res(o.ast, FALSE, o.n))
      [] e.kind = "Not" ->
           (LET operand_ast == LowerCall("bool", Operand(e), 0, n)
           IN Then1(operand_ast, Res(Z3_mk_not(operand_ast.ast), FALSE, operand_ast.n)))
      [] e.kind = "Shl" ->
           (LET left_ast == LowerCall("bv", Left(e), 128, n)
               right_ast == LowerCall("bv", Right(e), 128, left_ast.n)
           IN Then2(left_ast, right_ast,
                    Res(Z3_mk_bvop("bvshl", left_ast.ast, right_ast.ast), FALSE, right_ast.n)))
      [] e.kind = "Shr" ->
           (LET num_bits == bit_length(e.result_type)
               left_ast == LowerCall("bv", Left(e), num_bits, n)
               right_ast == LowerCall("bv", Right(e), num_bits, left_ast.n)
           IN Then2(left_ast, right_ast,
                    Res(IF is_signed_integer(e.result_type)
                        THEN Z3_mk_bvop("bvashr", left_ast.ast, right_ast.ast)
                        ELSE Z3_mk_bvop("bvlshr", left_ast.ast, right_ast.ast),
                        FALSE, right_ast.n)))
      [] e.kind \in {"ShlOverflows", "ShrOverflows"} ->
           ShiftOverflowsArm(LowerCall("numeric", Right(e), 0, n), bit_length(e.result_type))
      [] e.kind = "Variable" -> VariableArm(e, n)
      [] OTHER -> Res(Z3_mk_fresh_const(empty_str, any_sort, n.fresh), FALSE, MadeFresh(n))

get_as_numeric_z3_ast(e, n) ==
    CASE e.kind \in ArithmeticKinds ->
           (LET l == LowerCall("numeric", Left(e), 0, n)
               r == LowerCall("numeric", Right(e), 0, l.n)
           IN ArithmeticArm(e.kind, l, r))
      [] e.kind \in BooleanKinds -> BoolToIntArm(LowerCall("any", e, 0, n))
      [] e.kind \in BitwiseKinds \cup {"Shl", "Shr"} ->
           BvToIntArm(LowerCall("bv", e, 128, n))
      [] e.kind = "CompileTimeConstant" ->
           (CASE e.cd = "False" -> Res(Z3_mk_int(0, int_sort), FALSE, n)
              [] e.cd = "True" -> Res(Z3_mk_int(1, int_sort), FALSE, n)
              [] e.cd \in {"F32", "F64"} ->
                   (LET a == LowerCall("any", e, 0, n) IN Res(a.ast, TRUE, a.n))
              [] OTHER -> (LET a == LowerCall("any", e, 0, n) IN Res(a.ast, FALSE, a.n)))
      [] e.kind = "ConditionalExpression" ->
           (LET condition_ast == LowerCall("bool", e.args[1], 0, n)
               consequent_ast == LowerCall("numeric", e.args[2], 0, condition_ast.n)
               alternate_ast == LowerCall("numeric", e.args[3], 0, consequent_ast.n)
           IN NumericConditionalArm(condition_ast, consequent_ast, alternate_ast))
      [] e.kind = "Neg" -> NegArm(LowerCall("numeric", Operand(e), 0, n))
      [] e.kind = "Reference" ->
           Res(Z3_mk_const(RefName(e.path), int_sort), FALSE, n)
      [] e.kind = "Variable" ->
           (CASE e.var_type \in {"Bool", "NonPrimitive"} ->
                   Res(Z3_mk_const(PathName(e.path), int_sort), FALSE, n)
              [] e.var_type \in {"F32", "F64"} ->
                   (LET a == LowerCall("any", e, 0, n) IN Res(a.ast, TRUE, a.n))
              [] OTHER -> (LET a == LowerCall("any", e, 0, n) IN Res(a.ast, FALSE, a.n)))
      [] e.kind = "Top" -> Res(Z3_mk_fresh_const(empty_str, int_sort, n.fresh), FALSE, MadeFresh(n))
      [] OTHER -> LET a == LowerCall("any", e, 0, n) IN Res(a.ast, FALSE, a.n)

get_as_bool_z3_ast(e, n) ==
    CASE e.kind \in BitwiseKinds -> NonZeroArm(LowerCall("bv", e, 128, n))
      [] e.kind = "CompileTimeConstant" ->
           (CASE e.cd = "False" -> Res(Z3_mk_false, FALSE, n)
              [] e.cd = "True" -> Res(Z3_mk_true, FALSE, n)
              [] OTHER -> LowerCall("any", e, 0, n))
      [] e.kind = "Top" -> Res(Z3_mk_fresh_const(empty_str, bool_sort, n.fresh), FALSE, MadeFresh(n))
      [] OTHER -> LowerCall("any", e, 0, n)

get_as_bv_z3_ast(e, num_bits, n) ==
    CASE e.kind \in BooleanKinds -> BoolToBvArm(LowerCall("any", e, 0, n), num_bits)
      [] e.kind \in BitwiseKinds ->
           (LET left_ast == LowerCall("bv", Left(e), num_bits, n)
               right_ast == LowerCall("bv", Right(e), num_bits, left_ast.n)
           IN Then2(left_ast, right_ast,
                    Res(CASE e.kind = "BitAnd" -> Z3_mk_bvop("bvand", left_ast.ast, right_ast.ast)
                          [] e.kind = "BitOr" -> Z3_mk_bvop("bvor", left_ast.ast, right_ast.ast)
                          [] e.kind = "BitXor" -> Z3_mk_bvop("bvxor", left_ast.ast, right_ast.ast),
                        FALSE, right_ast.n)))
      [] e.kind = "CompileTimeConstant" ->
           BvConstantArm(LowerCall("numeric", e, 0, n), num_bits)
      [] e.kind = "ConditionalExpression" ->
           (LET condition_ast == LowerCall("bool", e.args[1], 0, n)
               consequent_ast == LowerCall("bv", e.args[2], num_bits, condition_ast.n)
               alternate_ast == LowerCall("bv", e.args[3], num_bits, consequent_ast.n)
           IN IF IsFatal(condition_ast.ast) THEN condition_ast
              ELSE Then2(consequent_ast, alternate_ast,
                         Res(Z3_mk_ite(condition_ast.ast, consequent_ast.ast,
                                       alternate_ast.ast), FALSE, alternate_ast.n)))
      [] e.kind = "Shl" ->
           (LET left_ast == LowerCall("bv", Left(e), num_bits, n)
               right_ast == LowerCall("bv", Right(e), num_bits, left_ast.n)
           IN Then2(left_ast, right_ast,
                    Res(Z3_mk_bvop("bvshl", left_ast.ast, right_ast.ast), FALSE, right_ast.n)))
      [] e.kind = "Shr" ->
           (LET left_ast == LowerCall("bv", Left(e), num_bits, n)
               right_ast == LowerCall("bv", Right(e), num_bits, left_ast.n)
           IN Then2(left_ast, right_ast,
                    Res(IF is_signed_integer(e.result_type)
                        THEN Z3_mk_bvop("bvashr", left_ast.ast, right_ast.ast)
                        ELSE Z3_mk_bvop("bvlshr", left_ast.ast, right_ast.ast),
                        FALSE, right_ast.n)))
      [] e.kind = "Variable" -> BvVariableArm(e, num_bits, n)
      [] e.kind = "Top" ->
           Res(Z3_mk_fresh_const(empty_str, Z3_mk_bv_sort(num_bits), n.fresh), FALSE, MadeFresh(n))
      [] OTHER -> LowerCall("any", e, 0, n)

\* get_as_smt_predicate
get_as_smt_predicate(e, n) == LowerCall("bool", e, 0, n)

\* A call self.get_as_..._z3_ast(..): view names the method called.
Views == {"any", "numeric", "bool", "bv", "smt"}
LowerCall(view, e, num_bits, n) ==
    CASE view = "any" -> get_as_z3_ast(e, n)
      [] view = "numeric" -> get_as_numeric_z3_ast(e, n)
      [] view = "bool" -> get_as_bool_z3_ast(e, n)
      [] view = "bv" -> get_as_bv_z3_ast(e, num_bits, n)
      [] view = "smt" -> get_as_smt_predicate(e, n)

(***************************************************************************)
(* What Z3 decides.  Eval gives a term's value under an assignment env of  *)
(* values to the constants in it; bit-vectors are their unsigned values.   *)
(* The overflow predicates are those of Z3's api_bv: an addition does not  *)
(* overflow when two positive operands give a positive sum, and so on.     *)
(* The decision procedure itself is Z3's: the model gives its verdict on   *)
(* the constraints it can decide (Solvable), up to the linked library's    *)
(* reading of a signed bvmul_no_overflow, and leaves every verdict open    *)
(* on the others.                                                          *)
(***************************************************************************)
Pow2(w) == 2 ^ w
ToSigned(v, w) == IF v >= Pow2(w - 1) THEN v - Pow2(w) ELSE v
BvAdd(a, b, w) == (a + b) % Pow2(w)
BvNeg(a, w) == (Pow2(w) - a) % Pow2(w)
bvadd_no_overflow(a, b, w, is_signed) ==
    IF is_signed
    THEN (0 < ToSigned(a, w) /\ 0 < ToSigned(b, w)) => 0 < ToSigned(BvAdd(a, b, w), w)
    ELSE a + b < Pow2(w)
bvadd_no_underflow(a, b, w) ==
    (ToSigned(a, w) < 0 /\ ToSigned(b, w) < 0) => ToSigned(BvAdd(a, b, w), w) < 0
bvsub_no_overflow(a, b, w) ==
    IF b = Pow2(w - 1) THEN ToSigned(a, w) < 0
    ELSE bvadd_no_overflow(a, BvNeg(b, w), w, TRUE)
bvsub_no_underflow(a, b, w, is_signed) ==
    IF is_signed
    THEN 0 < ToSigned(b, w) => bvadd_no_underflow(a, BvNeg(b, w), w)
    ELSE b <= a
\* The libz3 a build links decides how a signed bvmul_no_overflow is read:
\* as the predicate Z3 documents (the signed product is below 2^(w-1)), or
\* folded on the unsigned values of its operands, true when one of them is
\* 0 or 1 and else when their product is below 2^(w-1).  A libz3 whose
\* rewriter folds does so where its rewriting has made the operands
\* numerals, be they numerals of the term or constants that the asserted
\* constraints pin; which occurrences that is, is the library's business.
Libraries == {"documented", "folding"}
bvmul_no_overflow(a, b, w, is_signed, folded) ==
    IF ~is_signed THEN a = 0 \/ b <= (Pow2(w) - 1) \div a
    ELSE IF folded THEN a \in {0, 1} \/ b \in {0, 1} \/ a <= (Pow2(w - 1) - 1) \div b
    ELSE ToSigned(a, w) * ToSigned(b, w) < Pow2(w - 1)
bvmul_no_underflow(a, b, w) == ToSigned(a, w) * ToSigned(b, w) >= -Pow2(w - 1)
\* IEEE equality: NaN equals nothing, the two zeros are equal.
fpa_eq(a, b) == ~a.nan /\ ~b.nan /\ (a = b \/ (FpIsZero(a) /\ FpIsZero(b)))

\* The constants of a term.
RECURSIVE Symbols(_)
Symbols(t) ==
    IF t.op \in {"const", "fresh"} THEN {t}
    ELSE UNION {Symbols(t.args[i]) : i \in 1..Len(t.args)}
\* The numerals of a term.
RECURSIVE Numerals(_)
Numerals(t) ==
    IF t.op \in {"num", "fpnum"} THEN {t}
    ELSE UNION {Numerals(t.args[i]) : i \in 1..Len(t.args)}

\* The constraints the model decides, exactly but for the reading of a
\* signed bvmul_no_overflow: the boolean combinations of
\* boolean constants, of equalities between two leaves (constants or
\* numerals) of one sort, of orderings of integer leaves, of IEEE equality
\* and NaN tests of float leaves, and of the overflow predicates over
\* bit-vector leaves (a constant of at most 8 bits, or the int2bv of a
\* numeral at no more than 16 bits).
RECURSIVE Solvable(_)
Solvable(t) ==
    LET BvPredicates ==
            {"bvadd_no_overflow", "bvadd_no_underflow", "bvsub_no_overflow",
             "bvsub_no_underflow", "bvmul_no_overflow", "bvmul_no_underflow"}
        IsLeaf(x) ==
            \/ x.op \in {"const", "fresh", "num", "fpnum"} /\ ~IsBvSort(x.sort)
            \/ x.op \in {"const", "fresh"} /\ IsBvSort(x.sort) /\ x.sort.w <= 8
            \/ x.op = "int2bv" /\ x.sort.w <= 16 /\ x.args[1].op = "num"
    IN CASE t.op \in {"true", "false"} -> TRUE
         [] t.op \in {"const", "fresh"} -> t.sort = bool_sort
         [] t.op \in {"not", "and", "or"} -> \A i \in 1..Len(t.args) : Solvable(t.args[i])
         [] t.op = "eq" -> IsLeaf(t.args[1]) /\ IsLeaf(t.args[2])
         [] t.op \in {"ge", "gt", "le", "lt"} ->
              /\ IsLeaf(t.args[1]) /\ IsLeaf(t.args[2])
              /\ t.args[1].sort = int_sort /\ t.args[2].sort = int_sort
         [] t.op = "fpa_eq" -> IsLeaf(t.args[1]) /\ IsLeaf(t.args[2])
         [] t.op = "fpa_is_nan" -> IsLeaf(t.args[1])
         [] t.op \in BvPredicates ->
              IsLeaf(t.args[1]) /\ IsLeaf(t.args[2]) /\ IsBvSort(t.args[1].sort)
         [] OTHER -> FALSE

\* The value of a Solvable term under the values env of its constants,
\* with every signed bvmul_no_overflow read as the library lib reads it;
\* for lib = "some", whether the term is true with each occurrence read
\* in one of the two ways, and for lib = "every", whether it is true
\* however each occurrence is read.
RECURSIVE Eval(_, _, _)
Eval(t, env, lib) ==
    LET a(i) == Eval(t.args[i], env, lib)
        w == t.args[1].sort.w
        dual == CASE lib = "some" -> "every" [] lib = "every" -> "some" [] OTHER -> lib
        readings == IF lib \in Libraries THEN {lib} ELSE Libraries
    IN CASE t.op = "true" -> TRUE
         [] t.op = "false" -> FALSE
         [] t.op = "num" -> t.num
         [] t.op = "fpnum" -> t.fp
         [] t.op \in {"const", "fresh"} -> env[t]
         [] t.op = "eq" -> a(1) = a(2)
         [] t.op = "not" -> ~Eval(t.args[1], env, dual)
         [] t.op = "and" -> \A i \in 1..Len(t.args) : a(i)
         [] t.op = "or" -> \E i \in 1..Len(t.args) : a(i)
         [] t.op = "ge" -> a(1) >= a(2)
         [] t.op = "gt" -> a(1) > a(2)
         [] t.op = "le" -> a(1) <= a(2)
         [] t.op = "lt" -> a(1) < a(2)
         [] t.op = "fpa_eq" -> fpa_eq(a(1), a(2))
         [] t.op = "fpa_is_nan" -> a(1).nan
         [] t.op = "int2bv" -> a(1) % Pow2(t.sort.w)
         [] t.op = "bvadd_no_overflow" -> bvadd_no_overflow(a(1), a(2), w, t.num = 1)
         [] t.op = "bvadd_no_underflow" -> bvadd_no_underflow(a(1), a(2), w)
         [] t.op = "bvsub_no_overflow" -> bvsub_no_overflow(a(1), a(2), w)
         [] t.op = "bvsub_no_underflow" -> bvsub_no_underflow(a(1), a(2), w, t.num = 1)
         [] t.op = "bvmul_no_overflow" ->
              LET values == { bvmul_no_overflow(a(1), a(2), w, t.num = 1, l = "folding") :
                                l \in readings }
              IN IF lib = "every" THEN values = {TRUE} ELSE TRUE \in values
         [] t.op = "bvmul_no_underflow" -> bvmul_no_underflow(a(1), a(2), w)

\* Values enough to decide Solvable constraints cs over their constant s:
\* both booleans; every value of a bit-vector; for the opaque sort, which
\* only equalities read, as many values as there are opaque constants; for
\* an integer, which is only compared with numerals and constants, the
\* integers within the number of integer constants of a numeral of cs or
\* of 0; for a float, which is only tested for NaN and for equality, NaN,
\* the two zeros, the float numerals of cs and as many other values as
\* there are float constants.
Candidates(s, cs) ==
    LET k == Cardinality({ x \in UNION {Symbols(c) : c \in cs} : x.sort = s.sort })
        nums == { m \in UNION {Numerals(c) : c \in cs} : m.sort = s.sort }
        man == IF s.sort = f32_sort THEN <<0, 0>> ELSE <<0, 0, 0, 0>>
    IN CASE s.sort = bool_sort -> BOOLEAN
         [] s.sort = any_sort -> 1..k
         [] s.sort = int_sort ->
              UNION { (n - k)..(n + k) : n \in {m.num : m \in nums} \cup {0} }
         [] IsFloatSort(s.sort) ->
              {FpNaN, FpVal(FALSE, 0, man), FpVal(TRUE, 0, man)}
                \cup { m.fp : m \in nums }
                \cup { FpVal(FALSE, e, man) : e \in 1..(Cardinality(nums) + k) }
         [] IsBvSort(s.sort) -> 0..(Pow2(s.sort.w) - 1)

RECURSIVE HasModel(_, _, _, _)
HasModel(syms, env, cs, lib) ==
    IF syms = {} THEN \A c \in cs : Eval(c, env, lib)
    ELSE LET s == CHOOSE x \in syms : TRUE
         IN \E v \in Candidates(s, cs) :
                HasModel(syms \ {s}, env @@ (s :> v), cs, lib)
\* Solvable constraints cs have a model, with every signed
\* bvmul_no_overflow read as lib reads it ("some", "every": see Eval).
Satisfiable(cs, lib) ==
    HasModel(UNION {Symbols(c) : c \in cs}, [x \in {} |-> 0], cs, lib)

Z3_L_FALSE == -1
Z3_L_UNDEF == 0
Z3_L_TRUE == 1
\* Z3_solver_check: the verdict on the constraints, or Z3_L_UNDEF when the
\* 100 ms timeout set in new() strikes or Z3 gives up.  On Solvable
\* constraints Z3_L_TRUE needs a model under some reading of the signed
\* bvmul_no_overflow occurrences, and Z3_L_FALSE needs that not every
\* reading has one.
Z3_solver_check(cs) ==
    IF \A c \in cs : Solvable(c)
    THEN { code \in {Z3_L_TRUE, Z3_L_FALSE, Z3_L_UNDEF} :
             /\ code = Z3_L_TRUE => Satisfiable(cs, "some")
             /\ code = Z3_L_FALSE => ~Satisfiable(cs, "every") }
    ELSE {Z3_L_TRUE, Z3_L_FALSE, Z3_L_UNDEF}
\* Mutant: a timeout is reported as Unsatisfiable.
SmtResultUndefAsUnsat(code) ==
    IF code = Z3_L_TRUE THEN "Satisfiable" ELSE "Unsatisfiable"
\* The match of solve().
SmtResultOf(code) ==
    CASE code = Z3_L_TRUE -> "Satisfiable"
      [] code = Z3_L_FALSE -> "Unsatisfiable"
      [] OTHER -> "Undefined"

(***************************************************************************)
(* The program state.  Every thread t constructs sessions with new(), as   *)
(* often as it likes, and uses the one it constructed last; fresh, stack,  *)
(* lowered and verdict are those of thread t's session.                    *)
(***************************************************************************)
Threads == {"t1", "t2"}

VARIABLES
    lock,         \* Z3_MUTEX: "free", or the thread holding the guard
    pc,           \* per thread: where it is in new(), "ready" once it has a session
    fresh,        \* per session: the Z3_mk_fresh_const calls its lowerings made
    int2bv,       \* per session: the context's int2bv declarations
    stack,        \* per session: the solver's assertion frames, innermost last
    checkpoints,  \* per session: what was in force at each outstanding push
    lowered,      \* per session: the last two terms the lowerings returned
    returned,     \* per session: the fresh constants in the terms returned so far
    verdict,      \* per session: what the last call, if it was solve(), returned
    alive,        \* FALSE once Z3's error handler has ended the process
    lastOp        \* the last operation run and the thread that ran it

vars ==
    <<lock, pc, fresh, int2bv, stack, checkpoints, lowered, returned, verdict, alive,
      lastOp>>

\* Bounds of the model.
MaxScopes == 2
MaxAsserts == 2
MaxFresh == 3

NoVerdict == [code |-> Z3_L_UNDEF, result |-> "None"]
\* An operation and its caller; for a backtrack, the constraints it dropped.
Op(t, op) == [t |-> t, op |-> op, dropped |-> {}]
InForce(frames) == UNION {frames[i] : i \in 1..Len(frames)}
Last(s) == s[Len(s)]
Front(s) == SubSeq(s, 1, Len(s) - 1)
Ready(t) == alive /\ pc[t] = "ready"

(***************************************************************************)
(* Z3Solver::new, in its steps: the call, Z3_MUTEX.lock(), the building of *)
(* the config, context, solver, sorts and constants, the drop of the guard *)
(* at the end of the unsafe block, and the return.                         *)
(***************************************************************************)
\* Mutant: Z3_MUTEX.lock() does not wait.
MutexNeverHeld(t) == TRUE
\* Z3_MUTEX.lock() returns once no thread holds the guard.
MutexFree(t) == lock = "free"

NewCall(t) ==
    /\ alive /\ pc[t] \in {"idle", "ready"}
    /\ pc' = [pc EXCEPT ![t] = "lock"]
    /\ lastOp' = Op(t, "new")
    /\ UNCHANGED <<lock, fresh, int2bv, stack, checkpoints, lowered, returned, verdict, alive>>

NewLock(t) ==
    /\ alive /\ pc[t] = "lock"
    /\ MutexFree(t)
    /\ lock' = t
    /\ pc' = [pc EXCEPT ![t] = "build"]
    /\ lastOp' = Op(t, "lock")
    /\ UNCHANGED <<fresh, int2bv, stack, checkpoints, lowered, returned, verdict, alive>>

NewBuild(t) ==
    /\ alive /\ pc[t] = "build"
    /\ fresh' = [fresh EXCEPT ![t] = 0]
    /\ int2bv' = [int2bv EXCEPT ![t] = {}]
    /\ stack' = [stack EXCEPT ![t] = <<{}>>]
    /\ checkpoints' = [checkpoints EXCEPT ![t] = <<>>]
    /\ lowered' = [lowered EXCEPT ![t] = <<>>]
    /\ returned' = [returned EXCEPT ![t] = {}]
    /\ verdict' = [verdict EXCEPT ![t] = NoVerdict]
    /\ pc' = [pc EXCEPT ![t] = "built"]
    /\ lastOp' = Op(t, "build")
    /\ UNCHANGED <<lock, alive>>

NewUnlock(t) ==
    /\ alive /\ pc[t] = "built"
    /\ lock' = "free"
    /\ pc' = [pc EXCEPT ![t] = "return"]
    /\ lastOp' = Op(t, "unlock")
    /\ UNCHANGED <<fresh, int2bv, stack, checkpoints, lowered, returned, verdict, alive>>

NewReturn(t) ==
    /\ alive /\ pc[t] = "return"
    /\ pc' = [pc EXCEPT ![t] = "ready"]
    /\ lastOp' = Op(t, "return")
    /\ UNCHANGED <<lock, fresh, int2bv, stack, checkpoints, lowered, returned, verdict, alive>>

(***************************************************************************)
(* The lowerings, called on a session.                                      *)
(***************************************************************************)
Lowered(view, e, num_bits, r) ==
    [view |-> view, num_bits |-> IF view = "bv" THEN num_bits ELSE 0,
     expr |-> e, ast |-> r.ast, f |-> r.f]

Lower(t, view, e, num_bits) ==
    LET r == LowerCall(view, e, num_bits, Context(fresh[t], int2bv[t]))
        LastTwo(s) == IF Len(s) > 2 THEN SubSeq(s, Len(s) - 1, Len(s)) ELSE s
    IN /\ Ready(t)
       /\ r.n.fresh <= MaxFresh
       /\ lowered' = [lowered EXCEPT
                        ![t] = LastTwo(Append(@, Lowered(view, e, num_bits, r)))]
       /\ returned' = [returned EXCEPT
                          ![t] = @ \cup IF IsFatal(r.ast) THEN {}
                                        ELSE {c \in Symbols(r.ast) : c.op = "fresh"}]
       /\ fresh' = [fresh EXCEPT ![t] = r.n.fresh]
       /\ int2bv' = [int2bv EXCEPT ![t] = r.n.int2bv]
       /\ pc' = [pc EXCEPT ![t] = IF r.ast = Panic THEN "panicked" ELSE @]
       /\ alive' = (r.ast # Z3Error)
       /\ verdict' = [verdict EXCEPT ![t] = NoVerdict]
       /\ lastOp' = Op(t, "lower")
       /\ UNCHANGED <<lock, stack, checkpoints>>

(***************************************************************************)
(* assert, set_backtrack_position, backtrack and solve.                    *)
(***************************************************************************)
\* Mutant: the assertion is not scoped, it joins the outermost frame.
AssertIntoBase(frames, term) == [frames EXCEPT ![1] = @ \cup {term}]
\* Mutant: Z3_solver_pop pops every frame.
PopAllFrames(frames) == <<frames[1]>>

\* Z3_solver_assert: the term joins the innermost frame.
AssertInto(frames, term) == [frames EXCEPT ![Len(frames)] = @ \cup {term}]
\* Z3_solver_push.
PushFrame(frames) == Append(frames, {})
\* Z3_solver_pop(.., 1).
PopFrame(frames) == Front(frames)

AssertTerm(t, term) ==
    /\ Cardinality(InForce(stack[t])) < MaxAsserts
    /\ IF term.sort = bool_sort
       THEN stack' = [stack EXCEPT ![t] = AssertInto(@, term)] /\ alive' = alive
       ELSE stack' = stack /\ alive' = FALSE
    /\ verdict' = [verdict EXCEPT ![t] = NoVerdict]
    /\ lastOp' = Op(t, "assert")
    /\ UNCHANGED <<lock, pc, fresh, int2bv, checkpoints, lowered, returned>>

\* assert(&term) on the term the last lowering returned.
assert(t) ==
    /\ Ready(t)
    /\ lowered[t] # <<>>
    /\ AssertTerm(t, Last(lowered[t]).ast)

\* assert(&term) on "the two terms lowered last are unequal", which the
\* caller builds from them with Z3_mk_eq and Z3_mk_not.
AssertUnequal(t) ==
    /\ Ready(t)
    /\ Len(lowered[t]) = 2
    /\ lowered[t][1].ast.sort = lowered[t][2].ast.sort
    /\ AssertTerm(t, Z3_mk_not(Z3_mk_eq(lowered[t][1].ast, lowered[t][2].ast)))

SetBacktrackPosition(t) ==
    /\ Ready(t)
    /\ Len(checkpoints[t]) < MaxScopes
    /\ stack' = [stack EXCEPT ![t] = PushFrame(@)]
    /\ checkpoints' = [checkpoints EXCEPT ![t] = Append(@, InForce(stack[t]))]
    /\ verdict' = [verdict EXCEPT ![t] = NoVerdict]
    /\ lastOp' = Op(t, "set_backtrack_position")
    /\ UNCHANGED <<lock, pc, fresh, int2bv, lowered, returned, alive>>

\* Z3_solver_pop with no scope to pop is a Z3 error.
Backtrack(t) ==
    /\ Ready(t)
    /\ IF checkpoints[t] # <<>>
       THEN /\ stack' = [stack EXCEPT ![t] = PopFrame(@)]
            /\ checkpoints' = [checkpoints EXCEPT ![t] = Front(@)]
            /\ alive' = alive
            /\ lastOp' = [Op(t, "backtrack") EXCEPT
                            !.dropped = InForce(stack[t]) \ InForce(PopFrame(stack[t]))]
       ELSE /\ alive' = FALSE
            /\ lastOp' = Op(t, "backtrack")
            /\ UNCHANGED <<stack, checkpoints>>
    /\ verdict' = [verdict EXCEPT ![t] = NoVerdict]
    /\ UNCHANGED <<lock, pc, fresh, int2bv, lowered, returned>>

\* solve(): Z3_solver_check on the constraints in force, and the match on
\* its code.  The session makes no term of its own here.
Solve(t) ==
    /\ Ready(t)
    /\ \E code \in Z3_solver_check(InForce(stack[t])) :
           verdict' = [verdict EXCEPT
                         ![t] = [code |-> code, result |-> SmtResultOf(code)]]
    /\ lastOp' = Op(t, "solve")
    /\ UNCHANGED <<lock, pc, fresh, int2bv, stack, checkpoints, lowered, returned, alive>>

(***************************************************************************)
(* Spec: one session, in use.  Thread t1 lowers predicates with            *)
(* get_as_smt_predicate and asserts them, pushes, pops and solves.         *)
(***************************************************************************)
NewSession(ready) ==
    /\ lock = "free"
    /\ pc = [t \in Threads |-> IF t \in ready THEN "ready" ELSE "idle"]
    /\ fresh = [t \in Threads |-> 0]
    /\ int2bv = [t \in Threads |-> {}]
    /\ stack = [t \in Threads |-> <<{}>>]
    /\ checkpoints = [t \in Threads |-> <<>>]
    /\ lowered = [t \in Threads |-> <<>>]
    /\ returned = [t \in Threads |-> {}]
    /\ verdict = [t \in Threads |-> NoVerdict]
    /\ alive = TRUE
    /\ lastOp = Op("t1", "new")

Init == NewSession({"t1"})

VarX == Variable("x", "I32")
Predicates ==
    { Const("False", 0), Const("True", 0),
      Binary("GreaterThan", VarX, Const("I128", 5)),
      Binary("LessThan", VarX, Const("I128", 3)) }

Next ==
    \/ \E e \in Predicates : Lower("t1", "smt", e, 0)
    \/ assert("t1")
    \/ SetBacktrackPosition("t1")
    \/ Backtrack("t1")
    \/ Solve("t1")

Spec == Init /\ [][Next]_vars

(***************************************************************************)
(* Claims about the session protocol, checked under Spec.                  *)
(***************************************************************************)
BacktrackStep(t) ==
    lastOp'.t = t /\ lastOp'.op = "backtrack" /\ checkpoints[t] # <<>>

\* C1: checkpoint isolation.  A backtrack() that matches a
\* set_backtrack_position() leaves in force exactly the constraints that
\* were in force just before that push, whatever was asserted in between
\* (false included); and a solve() judges the constraints in force when it
\* is called, so after the backtrack its verdict is one on the constraints
\* of before the push.
C1_CheckpointIsolation ==
    /\ [][\A t \in Threads : BacktrackStep(t) =>
            /\ alive'
            /\ InForce(stack'[t]) = Last(checkpoints[t])]_vars
    /\ [][\A t \in Threads : lastOp' = Op(t, "solve") =>
            /\ verdict'[t].code \in Z3_solver_check(InForce(stack[t]))
            /\ stack' = stack /\ checkpoints' = checkpoints]_vars

\* A backtrack has just dropped an assertion of false that was made, after
\* the push it matches, on top of constraints that have a model; those are
\* in force again and false is not.
C1_Witness ==
    /\ lastOp.t = "t1" /\ lastOp.op = "backtrack" /\ alive
    /\ Z3_mk_false \in lastOp.dropped
    /\ InForce(stack["t1"]) # {}
    /\ \A lib \in Libraries : Satisfiable(InForce(stack["t1"]), lib)
    /\ Z3_mk_false \notin InForce(stack["t1"])

\* C2: backtrack() pops exactly one frame.  With k >= 1 checkpoints
\* outstanding it leaves k-1, drops only the constraints of the innermost
\* frame and leaves every outer frame as it was.
C2_BacktrackPopsOneFrame ==
    [][\A t \in Threads : BacktrackStep(t) =>
          /\ alive'
          /\ Len(checkpoints'[t]) = Len(checkpoints[t]) - 1
          /\ Len(stack'[t]) = Len(stack[t]) - 1
          /\ \A i \in 1..Len(stack'[t]) : stack'[t][i] = stack[t][i]
          /\ InForce(stack[t]) \ InForce(stack'[t]) \subseteq Last(stack[t])]_vars

\* A backtrack with two checkpoints outstanding has left one, and both
\* remaining frames still hold their constraints.
C2_Witness ==
    /\ lastOp.t = "t1" /\ lastOp.op = "backtrack" /\ alive
    /\ lastOp.dropped # {}
    /\ Len(checkpoints["t1"]) = 1
    /\ stack["t1"][1] # {} /\ stack["t1"][2] # {}

\* C3: solve() answers Satisfiable only for Z3_L_TRUE, Unsatisfiable only
\* for Z3_L_FALSE and Undefined for every other code, so never Satisfiable
\* or Unsatisfiable for Z3_L_UNDEF; and the code is one Z3_solver_check
\* gives on exactly the constraints in force, which the call leaves as
\* they are.
C3_SolveVerdict ==
    /\ [](\A code \in -2..2 :
            /\ SmtResultOf(code) = "Satisfiable" <=> code = Z3_L_TRUE
            /\ SmtResultOf(code) = "Unsatisfiable" <=> code = Z3_L_FALSE
            /\ SmtResultOf(code) = "Undefined" <=> code \notin {Z3_L_TRUE, Z3_L_FALSE})
    /\ [](lastOp.op = "solve" =>
            LET v == verdict[lastOp.t]
                cs == InForce(stack[lastOp.t])
            IN /\ v.result = SmtResultOf(v.code)
               /\ v.code \in Z3_solver_check(cs)
               /\ v.result = "Satisfiable" => Satisfiable(cs, "some")
               /\ v.result = "Unsatisfiable" => ~Satisfiable(cs, "every")
               /\ v.code = Z3_L_UNDEF => v.result = "Undefined")
    /\ [][lastOp'.op = "solve" =>
            /\ InForce(stack'[lastOp'.t]) = InForce(stack[lastOp'.t])
            /\ verdict'[lastOp'.t].code \in Z3_solver_check(InForce(stack[lastOp'.t]))]_vars

\* solve() has answered Undefined on constraints that have no model.
C3_Witness ==
    /\ lastOp = Op("t1", "solve")
    /\ verdict["t1"].result = "Undefined"
    /\ InForce(stack["t1"]) # {}
    /\ \A lib \in Libraries : ~Satisfiable(InForce(stack["t1"]), lib)


(***************************************************************************)
(* SpecNew: two threads, each constructing sessions with new() and using   *)
(* the one it has, while the other may be anywhere in its own new().  A    *)
(* user may end the process: by a backtrack() with no checkpoint           *)
(* outstanding, or by lowering a comparison of an f32 with an f64.  Every  *)
(* thread that can go on in new() eventually does; Z3_MUTEX, a             *)
(* std::sync::Mutex, promises a waiting thread nothing.                    *)
(***************************************************************************)
\* The steps of a new() that has been called.
Construct(t) ==
    \/ NewLock(t)
    \/ NewBuild(t)
    \/ NewUnlock(t)
    \/ NewReturn(t)

NextNew ==
    \/ \E t \in Threads : NewCall(t)
    \/ \E t \in Threads : NewLock(t)
    \/ \E t \in Threads : NewBuild(t)
    \/ \E t \in Threads : NewUnlock(t)
    \/ \E t \in Threads : NewReturn(t)
    \/ \E t \in Threads :
           \E e \in {Const("True", 0), Binary("Ne", Variable("f", "F32"), Variable("d", "F64"))} :
               Lower(t, "smt", e, 0)
    \/ \E t \in Threads : assert(t)
    \/ \E t \in Threads : SetBacktrackPosition(t)
    \/ \E t \in Threads : Backtrack(t)
    \/ \E t \in Threads : Solve(t)

SpecNew ==
    /\ NewSession({})
    /\ [][NextNew]_vars
    /\ \A t \in Threads : WF_vars(Construct(t))

(***************************************************************************)
(* Claims about construction, checked under SpecNew.                       *)
(***************************************************************************)
InConstruction(t) == pc[t] \in {"build", "built"}
InNew(t) == pc[t] \in {"lock", "build", "built", "return"}
SessionOps == {"lower", "assert", "set_backtrack_position", "backtrack", "solve"}
\* The lock is held exactly by the thread inside the construction section,
\* and no session operation takes, frees or waits for it: each can be
\* called on a ready session whoever holds the lock.
LockGuardsConstructionOnly ==
    /\ [](\A t, u \in Threads : InConstruction(t) /\ InConstruction(u) => t = u)
    /\ [](\A t \in Threads : lock = t <=> InConstruction(t))
    /\ [](\A t \in Threads : Ready(t) =>
            /\ ENABLED Solve(t)
            /\ ENABLED Backtrack(t)
            /\ ENABLED Lower(t, "smt", Const("True", 0), 0)
            /\ lowered[t] # <<>> /\ Cardinality(InForce(stack[t])) < MaxAsserts
                 => ENABLED assert(t)
            /\ Len(checkpoints[t]) < MaxScopes => ENABLED SetBacktrackPosition(t))
    /\ [][lastOp'.op \in SessionOps => lock' = lock /\ pc' = pc]_vars

\* C4, as stated: construction is mutually exclusive, the lock is held only
\* inside new() and released before it returns, the session operations do
\* not wait on it, and every construction that has started (a thread
\* waiting for the lock included) eventually completes, unless the process
\* ends first.
C4_ConstructionExclusive ==
    /\ LockGuardsConstructionOnly
    /\ \A t \in Threads : InNew(t) ~> (pc[t] = "ready" \/ ~alive)

\* C4, amended: construction is mutually exclusive, the lock is held only
\* inside new() and released before it returns, and the session operations
\* do not wait on it.  While the process runs, a construction that holds
\* the lock completes, and a thread waiting for the lock goes on within a
\* bounded wait of the lock being left free; a construction need not
\* complete when the process ends, nor when other threads take the lock
\* again and again.
C4_ConstructionExclusiveWhileRunning ==
    /\ LockGuardsConstructionOnly
    /\ \A t \in Threads :
          (pc[t] \in {"build", "built", "return"}) ~> (pc[t] = "ready" \/ ~alive)
    /\ \A t \in Threads :
          (pc[t] = "lock") ~> (pc[t] = "build" \/ lock # "free" \/ ~alive)

\* Thread t1 has just had solve() answer on its session while thread t2 is
\* inside the construction section, holding the lock.
C4_Witness ==
    /\ lastOp = Op("t1", "solve")
    /\ verdict["t1"].result = "Satisfiable"
    /\ lock = "t2" /\ InConstruction("t2")

(***************************************************************************)
(* SpecLower: one session on which one expression is lowered by one view,  *)
(* the term is asserted and, where the model can decide the term, solve()  *)
(* is called.  The expressions are drawn from three families: the overflow *)
(* predicates on constants of 8- and 16-bit types, Equals and Ne on floats *)
(* (NaNs, zeros, ones, infinity and variables), and every node kind over a *)
(* few leaves.                                                             *)
(***************************************************************************)
\* The integers a type represents.
RangeOf(t) ==
    IF is_signed_integer(t) THEN (0 - Pow2(bit_length(t) - 1))..(Pow2(bit_length(t) - 1) - 1)
    ELSE 0..(Pow2(bit_length(t)) - 1)
\* The constants tried as operands: the ends of the range and values around
\* zero, the middle and the square root of the range.
OperandValues(t) ==
    RangeOf(t) \cap
      ({-32768, -182, -181, -128, -127, -100, -12, -11, -1}
         \cup {0, 1, 2, 11, 12, 15, 16, 17, 64, 100, 127, 128, 181, 182}
         \cup {200, 255, 256, 32767, 65535})
IntConst(t, v) == IF is_signed_integer(t) THEN Const("I128", v) ELSE Const("U128", v)
OverflowKinds == {"AddOverflows", "SubOverflows", "MulOverflows"}
\* U16 has no MulOverflows here: the products pass the evaluator's integers.
OverflowExprs ==
    LET OverflowOn(kinds, t) ==
            { Typed(k, IntConst(t, a), IntConst(t, b), t) :
                k \in kinds, a \in OperandValues(t), b \in OperandValues(t) }
    IN OverflowOn(OverflowKinds, "I8") \cup OverflowOn(OverflowKinds, "U8")
         \cup OverflowOn(OverflowKinds, "I16")
         \cup OverflowOn({"AddOverflows", "SubOverflows"}, "U16")

\* Equals and Ne on f32 and on f64 leaves: +0, -0, 1, -1, +infinity, two
\* NaNs and variables; and on an f32 leaf next to an f64 one.
FloatEqExprs ==
    LET F32Leaves ==
            { FloatConst("F32", bits) :
                bits \in {<<0, 0>>, <<32768, 0>>, <<16256, 0>>, <<49024, 0>>,
                          <<32640, 0>>, <<32704, 0>>, <<65408, 1>>} }
              \cup {Variable("f", "F32"), Variable("g", "F32")}
        F64Leaves ==
            { FloatConst("F64", bits) :
                bits \in {<<0, 0, 0, 0>>, <<32768, 0, 0, 0>>, <<16368, 0, 0, 0>>,
                          <<32760, 0, 0, 0>>, <<32752, 0, 0, 1>>} }
              \cup {Variable("d", "F64")}
        Mixed32 == {FloatConst("F32", <<32704, 0>>), Variable("f", "F32")}
        Mixed64 == {FloatConst("F64", <<32760, 0, 0, 0>>), Variable("d", "F64")}
    IN { Binary(k, a, b) : k \in {"Equals", "Ne"}, a \in F32Leaves, b \in F32Leaves }
         \cup { Binary(k, a, b) : k \in {"Equals", "Ne"}, a \in F64Leaves, b \in F64Leaves }
         \cup { Binary(k, a, b) : k \in {"Equals", "Ne"}, a \in Mixed32, b \in Mixed64 }
         \cup { Binary(k, a, b) : k \in {"Equals", "Ne"}, a \in Mixed64, b \in Mixed32 }

\* Every node kind, over a few leaves.
KindExprs ==
    LET Leaves ==
            { Const("True", 0), Const("False", 0), Const("I128", 1), Const("U128", 0),
              Const("Char", 65), Const("Str", 0), FloatConst("F32", <<16256, 0>>),
              VarX, Variable("b", "Bool"), Variable("f", "F32"), Variable("d", "F64"),
              Variable("p", "NonPrimitive"), Reference("r"), Top, Bottom }
        Operands ==
            { Const("I128", 1), Const("True", 0), VarX, Variable("b", "Bool"),
              Variable("f", "F32"), Top }
    IN Leaves
         \cup { Unary(k, a) : k \in {"Neg", "Not"}, a \in Leaves }
         \cup { Binary(k, a, b) :
                  k \in (ArithmeticKinds \cup BooleanKinds \cup BitwiseKinds) \ {"Not"},
                  a \in Operands, b \in Operands }
         \cup { Typed(k, a, b, t) :
                  k \in OverflowKinds \cup {"Shl", "Shr", "ShlOverflows", "ShrOverflows"},
                  a \in Operands, b \in Operands, t \in {"I8", "U8"} }
         \cup { ConditionalExpression(c, a, b) :
                  c \in {Const("True", 0), Variable("b", "Bool"), VarX},
                  a \in Operands, b \in Operands }

\* Operators over operands of every shape: arithmetic and unsupported nodes
\* under the overflow predicates, the bitwise operators and the shifts;
\* integer, f32, f64, overflow-predicate, unrecognized-constant and
\* unsupported operands under arithmetic and comparison; the shift-overflow
\* predicates over constant, variable, float, overflow-predicate,
\* unrecognized-constant and unsupported amounts; Equals on character
\* constants, above 0xFFFF too; MulOverflows over a conditional operand.
NestedExprs ==
    LET one_ == Const("I128", 1)
        Inner ==
            { Binary("Add", VarX, one_), Binary("Sub", VarX, one_),
              Binary("Mul", VarX, one_), Unary("Neg", VarX), Reference("r"),
              Typed("Shr", VarX, one_, "I8"), Bottom }
        Mixed ==
            { one_, VarX, Variable("f", "F32"), Variable("d", "F64"), Bottom,
              Const("Str", 0), Typed("AddOverflows", one_, one_, "I8") }
        Amounts ==
            { Const("I128", v) : v \in {-1, 0, 1, 7, 8, 9, 31, 32, 33, 127, 128, 129} }
              \cup {VarX, Variable("f", "F32"), FloatConst("F32", <<16256, 0>>)}
              \cup {Bottom, Const("Str", 0), Reference("r"),
                    Typed("AddOverflows", one_, one_, "I8")}
        Chars == { Const("Char", c) : c \in {0, 65, 66, 65535, 65536, 65601, 1114111} }
    IN { Typed(k, a, one_, "I8") :
           k \in OverflowKinds \cup {"Shl", "Shr"}, a \in Inner }
         \cup { Binary(k, a, one_) : k \in BitwiseKinds, a \in Inner }
         \cup { Binary(k, a, b) :
                  k \in ArithmeticKinds \cup OrderingKinds \cup {"Ne"},
                  a \in Mixed, b \in Mixed }
         \cup { Typed(k, a, b, t) :
                  k \in {"ShlOverflows", "ShrOverflows"},
                  a \in {VarX, one_, Variable("f", "F32")}, b \in Amounts,
                  t \in {"I8", "U8", "I32", "U128"} }
         \cup { Binary("Equals", a, b) : a \in Chars, b \in Chars }
         \cup { Typed("MulOverflows",
                      ConditionalExpression(Variable("b", "Bool"), c, c), c, "I8") :
                   c \in {Const("I128", -2), Const("I128", 2)} }

\* What is lowered: the view, the expression and, for the Bit-Vector view,
\* the width.
LowerInputs ==
    { [view |-> "any", expr |-> e, num_bits |-> 0] : e \in OverflowExprs \cup FloatEqExprs }
      \cup { [view |-> v, expr |-> e, num_bits |-> 0] : v \in {"any", "numeric"}, e \in NestedExprs }
      \cup { [view |-> v, expr |-> e, num_bits |-> 0] : v \in Views \ {"bv"}, e \in KindExprs }
      \cup { [view |-> "bv", expr |-> e, num_bits |-> w] : e \in KindExprs, w \in {8, 128} }

\* The terms on which the caller calls solve(): the overflow predicates on
\* integer constants, Equals and Ne on float leaves, the shift-overflow
\* predicates on constant amounts, Equals on character constants, and
\* MulOverflows over a conditional operand.
IsIntConst(e) == e.kind = "CompileTimeConstant" /\ e.cd \in {"I128", "U128"}
IsFloatLeaf(e) ==
    \/ e.kind = "CompileTimeConstant" /\ e.cd \in {"F32", "F64"}
    \/ e.kind = "Variable" /\ e.var_type \in {"F32", "F64"}
Decided(t) ==
    /\ lowered[t] # <<>>
    /\ LET e == Last(lowered[t]).expr
       IN \/ e.kind \in OverflowKinds /\ IsIntConst(Left(e)) /\ IsIntConst(Right(e))
          \/ e.kind \in {"Equals", "Ne"} /\ IsFloatLeaf(Left(e)) /\ IsFloatLeaf(Right(e))
          \/ e.kind \in {"ShlOverflows", "ShrOverflows"} /\ IsIntConst(Right(e))
          \/ e.kind = "Equals" /\ Left(e).cd = "Char" /\ Right(e).cd = "Char"
          \/ e.kind = "MulOverflows" /\ Left(e).kind = "ConditionalExpression"

NextLower ==
    \/ lowered["t1"] = <<>>
         /\ \E x \in LowerInputs : Lower("t1", x.view, x.expr, x.num_bits)
    \/ assert("t1")
    \/ Decided("t1") /\ Solve("t1")

SpecLower == Init /\ [][NextLower]_vars

(***************************************************************************)
(* Claims about the lowerings, checked under SpecLower.                    *)
(***************************************************************************)
NoEnv == [x \in {} |-> 0]
HasLowered == lowered["t1"] # <<>>
LastLowered == Last(lowered["t1"])
\* solve() has answered on the asserted term of the last lowering.
SolvedLast ==
    /\ lastOp = Op("t1", "solve")
    /\ LastLowered.ast \in InForce(stack["t1"])

\* The mathematical result of the checked operation lies outside the type.
Escapes(e) ==
    LET a == Left(e).val
        b == Right(e).val
        result == CASE e.kind = "AddOverflows" -> a + b
                    [] e.kind = "SubOverflows" -> a - b
                    [] e.kind = "MulOverflows" -> a * b
    IN result \notin RangeOf(e.result_type)
IsOverflowCase(lw) ==
    /\ lw.view = "any"
    /\ lw.expr.kind \in OverflowKinds
    /\ IsIntConst(Left(lw.expr)) /\ Left(lw.expr).val \in RangeOf(lw.expr.result_type)
    /\ IsIntConst(Right(lw.expr)) /\ Right(lw.expr).val \in RangeOf(lw.expr.result_type)

\* C5: the overflow predicates are exact.  For a signed or unsigned result
\* type and two integer constants representable in it, the Any-View term of
\* AddOverflows, SubOverflows or MulOverflows is a boolean term that, with
\* Z3's predicates meaning what Z3 documents, is true exactly when the
\* mathematical sum, difference or product lies outside the type's range,
\* so it has a model exactly then; and where the linked libz3 keeps to the
\* documented meaning, solve() on the asserted term never answers
\* Satisfiable when the result fits, nor Unsatisfiable when it does not.
C5_OverflowExact ==
    (HasLowered /\ IsOverflowCase(LastLowered)) =>
        LET ast == LastLowered.ast
            escapes == Escapes(LastLowered.expr)
        IN /\ ast.sort = bool_sort
           /\ Solvable(ast)
           /\ Eval(ast, NoEnv, "documented") = escapes
           /\ Satisfiable({ast}, "documented") = escapes
           /\ (SolvedLast /\ Eval(ast, NoEnv, "folding") = Eval(ast, NoEnv, "documented")) =>
                 /\ verdict["t1"].result = "Satisfiable" => escapes
                 /\ verdict["t1"].result = "Unsatisfiable" => ~escapes

\* solve() has answered Unsatisfiable on the asserted MulOverflows of the i8
\* constants -128 and 1, and the term holds both signed predicates.
C5_Witness ==
    /\ HasLowered /\ SolvedLast
    /\ LastLowered.expr = Typed("MulOverflows", Const("I128", -128), Const("I128", 1), "I8")
    /\ LastLowered.ast.args[1].op = "and"
    /\ verdict["t1"].result = "Unsatisfiable"

\* The shape of an overflow term: NOT(pred) on the unsigned operands, or
\* NOT(AND(no-overflow, no-underflow)).
BvOpOf(kind) ==
    CASE kind = "AddOverflows" -> "bvadd"
      [] kind = "SubOverflows" -> "bvsub"
      [] kind = "MulOverflows" -> "bvmul"
IsNotOfPredicate(ast, pred) ==
    /\ ast.op = "not"
    /\ ast.args[1].op = pred
    /\ ast.args[1].num = 0
IsNotOfBoth(ast, op) ==
    /\ ast.op = "not"
    /\ ast.args[1].op = "and"
    /\ Len(ast.args[1].args) = 2
    /\ ast.args[1].args[1].op = op \o "_no_overflow"
    /\ ast.args[1].args[2].op = op \o "_no_underflow"
IsOverflowTerm(lw) ==
    /\ lw.view = "any"
    /\ lw.expr.kind \in OverflowKinds
    /\ ~IsFatal(lw.ast)

\* C6, as stated: for an unsigned result type each of AddOverflows,
\* SubOverflows and MulOverflows is the negation of the no-overflow predicate
\* alone; for a signed one each is NOT(AND(no-overflow, no-underflow)).
C6_UnsignedNoOverflowAlone ==
    (HasLowered /\ IsOverflowTerm(LastLowered)) =>
        LET e == LastLowered.expr
        IN IF is_signed_integer(e.result_type)
           THEN IsNotOfBoth(LastLowered.ast, BvOpOf(e.kind))
           ELSE IsNotOfPredicate(LastLowered.ast, BvOpOf(e.kind) \o "_no_overflow")

\* C6, amended: for an unsigned result type AddOverflows and MulOverflows
\* are the negation of the unsigned no-overflow predicate alone, and
\* SubOverflows is the negation of the unsigned no-underflow predicate alone
\* (the no-overflow predicate is not consulted); for a signed result type
\* each of the three is NOT(AND(no-overflow, no-underflow)).
C6_UnsignedSubNoUnderflow ==
    (HasLowered /\ IsOverflowTerm(LastLowered)) =>
        LET e == LastLowered.expr
        IN IF is_signed_integer(e.result_type)
           THEN IsNotOfBoth(LastLowered.ast, BvOpOf(e.kind))
           ELSE IsNotOfPredicate(LastLowered.ast,
                                 IF e.kind = "SubOverflows" THEN "bvsub_no_underflow"
                                 ELSE BvOpOf(e.kind) \o "_no_overflow")

\* The Any-View has lowered the SubOverflows of the u8 constants 1 and 2 to
\* a term that negates the unsigned no-underflow predicate.
C6_Witness ==
    /\ HasLowered /\ lastOp = Op("t1", "lower")
    /\ LastLowered.view = "any"
    /\ LastLowered.expr = Typed("SubOverflows", Const("U128", 1), Const("U128", 2), "U8")
    /\ LastLowered.ast.op = "not"
    /\ LastLowered.ast.args[1].op = "bvsub_no_underflow"
    /\ LastLowered.ast.args[1].num = 0

IsFloatEqCase(lw) ==
    /\ lw.view = "any"
    /\ lw.expr.kind \in {"Equals", "Ne"}
    /\ IsFloatLeaf(Left(lw.expr)) /\ IsFloatLeaf(Right(lw.expr))
IsNaNTerm(t) == t.op = "fpnum" /\ t.fp.nan

\* C9, as stated: on two float operands the Any-View term of Ne is the
\* disjunction (left is NaN) or (right is NaN) or not (left IEEE-equals
\* right), and that of Equals is the IEEE equality.  When one operand is
\* NaN, Ne is true and Equals is false whatever the other operand is, and
\* on operands that are not NaN Ne is the negation of Equals.
C9_FloatNeNaN ==
    (HasLowered /\ IsFloatEqCase(LastLowered)) =>
        LET e == LastLowered.expr
            l == LowerCall("numeric", Left(e), 0, NewContext).ast
            r == LowerCall("numeric", Right(e), 0, NewContext).ast
            ast == LastLowered.ast
            is_nan(x) == Term("fpa_is_nan", bool_sort, <<x>>, 0, "", NoFp)
            ieee_eq == Term("fpa_eq", bool_sort, <<l, r>>, 0, "", NoFp)
            ne == IF e.kind = "Ne" THEN ast ELSE Z3_mk_not(ast)
        IN /\ ~IsFatal(ast)
           /\ e.kind = "Equals" => ast = ieee_eq
           /\ e.kind = "Ne" =>
                 ast = Term("or", bool_sort,
                            <<is_nan(l), is_nan(r),
                              Term("not", bool_sort, <<ieee_eq>>, 0, "", NoFp)>>,
                            0, "", NoFp)
           /\ (IsNaNTerm(l) \/ IsNaNTerm(r)) =>
                 /\ ~Satisfiable({Z3_mk_not(ne)}, "documented")
                 /\ Satisfiable({ne}, "documented")
           /\ e.kind = "Ne" =>
                 /\ ~Satisfiable({ast, ieee_eq, Z3_mk_not(is_nan(l)), Z3_mk_not(is_nan(r))},
                                 "documented")
                 /\ ~Satisfiable({Z3_mk_not(ast), Z3_mk_not(ieee_eq)}, "documented")

\* C10, as stated: Boolean-View and get_as_smt_predicate return a
\* boolean-sorted term for every expression kind, so asserting the term
\* they return is never a Z3 error.
C10_BoolViewIsBool ==
    /\ (HasLowered /\ LastLowered.view \in {"bool", "smt"} /\ ~IsFatal(LastLowered.ast)) =>
          LastLowered.ast.sort = bool_sort
    /\ (HasLowered /\ LastLowered.view \in {"bool", "smt"} /\ lastOp.op = "assert") =>
          alive

(***************************************************************************)
(* SpecSym: one session on which Variable nodes are lowered again and      *)
(* again, by every view; the session keeps the last two terms.  While      *)
(* nothing is asserted the caller may assert that the two are unequal; it  *)
(* pushes, pops and solves as it likes.  SpecTop: the same, with the nodes *)
(* that lower to fresh constants in place of the variables.                *)
(***************************************************************************)
SymInputs ==
    LET Nodes == { Variable("x", t) : t \in {"Bool", "I32", "Char", "F32", "F64", "NonPrimitive"} }
                   \cup {Variable("y", "I32")}
    IN { [view |-> v, expr |-> e, num_bits |-> 0] : v \in {"any", "numeric", "bool"}, e \in Nodes }
         \cup { [view |-> "bv", expr |-> e, num_bits |-> 8] : e \in Nodes }
TopInputs ==
    { [view |-> v, expr |-> Top, num_bits |-> 0] : v \in {"any", "numeric", "bool"} }
      \cup { [view |-> "bv", expr |-> Top, num_bits |-> w] : w \in {4, 8} }
      \cup { [view |-> "any", expr |-> e, num_bits |-> 0] :
               e \in {Bottom, Variable("p", "NonPrimitive")} }

Unconstrained(t) == InForce(stack[t]) = {}

NextSym ==
    \/ \E x \in SymInputs :
           Unconstrained("t1") /\ Lower("t1", x.view, x.expr, x.num_bits)
    \/ Unconstrained("t1") /\ AssertUnequal("t1")
    \/ SetBacktrackPosition("t1")
    \/ checkpoints["t1"] # <<>> /\ Backtrack("t1")
    \/ ~Unconstrained("t1") /\ Solve("t1")

SpecSym == Init /\ [][NextSym]_vars

NextTop ==
    \/ \E x \in TopInputs :
           Unconstrained("t1") /\ Lower("t1", x.view, x.expr, x.num_bits)
    \/ Unconstrained("t1") /\ AssertUnequal("t1")
    \/ SetBacktrackPosition("t1")
    \/ checkpoints["t1"] # <<>> /\ Backtrack("t1")
    \/ ~Unconstrained("t1") /\ Solve("t1")

SpecTop == Init /\ [][NextTop]_vars

(***************************************************************************)
(* Claims about symbols, checked under SpecSym and SpecTop.                *)
(***************************************************************************)
\* The last two lowerings were of the same node kind, by the same view at
\* the same width.
TwiceBySameView(kind) ==
    /\ Len(lowered["t1"]) = 2
    /\ lowered["t1"][1].expr.kind = kind
    /\ lowered["t1"][2].expr.kind = kind
    /\ lowered["t1"][1].view = lowered["t1"][2].view
    /\ lowered["t1"][1].num_bits = lowered["t1"][2].num_bits
SameVariableTwice ==
    /\ TwiceBySameView("Variable")
    /\ lowered["t1"][1].expr = lowered["t1"][2].expr
\* The Any-View and Boolean-View lowering of a NonPrimitive variable.
OpaqueVariableTwice ==
    /\ SameVariableTwice
    /\ lowered["t1"][1].expr.var_type = "NonPrimitive"
    /\ lowered["t1"][1].view \in {"any", "bool", "smt"}
\* solve() has answered on the assertion that the last two terms are unequal.
SolvedUnequal ==
    /\ lastOp = Op("t1", "solve")
    /\ Len(lowered["t1"]) = 2
    /\ InForce(stack["t1"]) =
          {Z3_mk_not(Z3_mk_eq(lowered["t1"][1].ast, lowered["t1"][2].ast))}

Unequal == Z3_mk_not(Z3_mk_eq(lowered["t1"][1].ast, lowered["t1"][2].ast))
\* "The two are unequal" has no model, and solve() on it does not find one.
NeverUnequal ==
    /\ \A lib \in Libraries : ~Satisfiable({Unequal}, lib)
    /\ Z3_solver_check({Unequal}) = {Z3_L_FALSE, Z3_L_UNDEF}
    /\ SolvedUnequal => verdict["t1"].result \in {"Unsatisfiable", "Undefined"}
\* "The two are unequal" has a model, and solve() on it does not deny it.
MayBeUnequal ==
    /\ \A lib \in Libraries : Satisfiable({Unequal}, lib)
    /\ Z3_solver_check({Unequal}) = {Z3_L_TRUE, Z3_L_UNDEF}
    /\ SolvedUnequal => verdict["t1"].result \in {"Satisfiable", "Undefined"}

\* C7, as stated: two Variable nodes of the same path and declared type,
\* lowered one after the other by the same view, are the same solver symbol
\* whatever the declared type, never two fresh constants, so that "the two
\* are unequal" is unsatisfiable.
C7_SameSymbolEveryType ==
    SameVariableTwice =>
        /\ lowered["t1"][1].ast = lowered["t1"][2].ast
        /\ lowered["t1"][1].ast.op = "const"
        /\ NeverUnequal

\* C7, amended: two Variable nodes of the same path and declared type,
\* lowered one after the other by the same view, before or after a
\* backtrack, are the same solver symbol, and "the two are unequal" is
\* unsatisfiable (solve() answers Unsatisfiable, or Undefined when Z3 gives
\* up), for every declared type in the Numeric and Bit-Vector views, and
\* for every declared type but NonPrimitive in the Any and Boolean views;
\* there a NonPrimitive variable is a fresh opaque constant at each
\* lowering, and "the two are unequal" is satisfiable.
C7_SameSymbolButOpaque ==
    SameVariableTwice =>
        IF OpaqueVariableTwice
        THEN /\ lowered["t1"][1].ast # lowered["t1"][2].ast
             /\ lowered["t1"][1].ast.op = "fresh" /\ lowered["t1"][2].ast.op = "fresh"
             /\ MayBeUnequal
        ELSE /\ lowered["t1"][1].ast = lowered["t1"][2].ast
             /\ lowered["t1"][1].ast.op = "const"
             /\ NeverUnequal

\* Inside a pushed scope, solve() has answered Unsatisfiable on "the two are
\* unequal" for two Any-View lowerings of the i32 variable x.
C7_Witness ==
    /\ SameVariableTwice /\ SolvedUnequal
    /\ lowered["t1"][1].expr = VarX /\ lowered["t1"][1].view = "any"
    /\ Len(stack["t1"]) = 2
    /\ verdict["t1"].result = "Unsatisfiable"

\* C8: no fresh constant is returned twice: the fresh constants of a term a
\* lowering returns are none of those in the terms the session's lowerings
\* returned before.  Two Top nodes lowered one after the other by the same
\* view (at the same width) are two different fresh constants of the
\* view's sort, and "the two are unequal" is satisfiable: solve() on it
\* answers Satisfiable, or Undefined when Z3 gives up.
C8_TopFresh ==
    /\ [][\A t \in Threads :
            lastOp' = Op(t, "lower") =>
                LET made == returned'[t] \ returned[t]
                IN /\ returned[t] \subseteq returned'[t]
                   /\ Last(lowered'[t]).ast.op = "fresh" =>
                         /\ Last(lowered'[t]).ast \notin returned[t]
                         /\ made = {Last(lowered'[t]).ast}]_vars
    /\ [](TwiceBySameView("Top") =>
            /\ lowered["t1"][1].ast.op = "fresh" /\ lowered["t1"][2].ast.op = "fresh"
            /\ lowered["t1"][1].ast # lowered["t1"][2].ast
            /\ {lowered["t1"][1].ast, lowered["t1"][2].ast} \subseteq returned["t1"]
            /\ lowered["t1"][1].ast.sort = lowered["t1"][2].ast.sort
            /\ lowered["t1"][1].ast.sort =
                  CASE lowered["t1"][1].view \in {"any"} -> any_sort
                    [] lowered["t1"][1].view = "numeric" -> int_sort
                    [] lowered["t1"][1].view \in {"bool", "smt"} -> bool_sort
                    [] lowered["t1"][1].view = "bv" -> Z3_mk_bv_sort(lowered["t1"][1].num_bits)
            /\ MayBeUnequal)

\* solve() has answered Satisfiable on "the two are unequal" for two
\* Bit-Vector-View lowerings of Top, made after three fresh constants.
C8_Witness ==
    /\ TwiceBySameView("Top") /\ SolvedUnequal
    /\ lowered["t1"][1].view = "bv"
    /\ Cardinality(returned["t1"]) = 3
    /\ verdict["t1"].result = "Satisfiable"

(***************************************************************************)
(* Claims about the sorts the views return, checked under SpecLower.       *)
(***************************************************************************)
\* The nodes whose Any-View arm lowers both operands by Bit-Vector-View, and
\* the width it asks for.
BvOperandKinds == OverflowKinds \cup BitwiseKinds \cup {"Shl", "Shr"}
BvWidthOf(e) ==
    IF e.kind \in OverflowKinds \cup {"Shr"} THEN bit_length(e.result_type) ELSE 128

\* C11, as stated: Bit-Vector-View called with width w returns a term of
\* sort bit-vector(w) for every expression kind, so that both operands an
\* overflow predicate, a bitwise operator or a shift is built over have the
\* bit-vector sort of the requested width.
C11_BvViewSort ==
    /\ (HasLowered /\ LastLowered.view = "bv" /\ ~IsFatal(LastLowered.ast)) =>
          LastLowered.ast.sort = Z3_mk_bv_sort(LastLowered.num_bits)
    /\ (HasLowered /\ LastLowered.view = "any"
          /\ LastLowered.expr.kind \in BvOperandKinds) =>
          LET e == LastLowered.expr
              w == BvWidthOf(e)
              l == LowerCall("bv", Left(e), w, NewContext)
              r == LowerCall("bv", Right(e), w, l.n)
          IN /\ ~IsFatal(l.ast) => l.ast.sort = Z3_mk_bv_sort(w)
             /\ ~IsFatal(r.ast) => r.ast.sort = Z3_mk_bv_sort(w)
             /\ (~IsFatal(l.ast) /\ ~IsFatal(r.ast)) => LastLowered.ast # Z3Error

\* The nodes whose arm lowers both operands by Numeric-View and compares the
\* two is-float flags, lowered by the view that holds the arm or by
\* Numeric-View, which passes the other's result on.
FlagKinds == ArithmeticKinds \cup OrderingKinds \cup {"Ne"}
IsFlagNode(lw) == lw.view \in {"any", "numeric"} /\ lw.expr.kind \in FlagKinds
LeftNumeric(e) == LowerCall("numeric", Left(e), 0, NewContext)
RightNumeric(e) == LowerCall("numeric", Right(e), 0, LeftNumeric(e).n)
OperandsLowered(e) == ~IsFatal(LeftNumeric(e).ast) /\ ~IsFatal(RightNumeric(e).ast)

\* C12, as stated: when a binary arithmetic operator or a comparison is
\* lowered and the Numeric-View is-float flags of its operands differ, the
\* lowering aborts and gives no term; when the flags agree, the lowering does
\* not abort at that node.
C12_AbortIffFlagsDiffer ==
    (HasLowered /\ lastOp = Op("t1", "lower")
       /\ IsFlagNode(LastLowered) /\ OperandsLowered(LastLowered.expr)) =>
        IF LeftNumeric(LastLowered.expr).f # RightNumeric(LastLowered.expr).f
        THEN LastLowered.ast = Panic /\ pc["t1"] = "panicked"
        ELSE ~IsFatal(LastLowered.ast) /\ alive

\* An integer or float variable or an integer constant: an operand that
\* every view lowers without fail.
IsPlainLeaf(e) ==
    \/ IsIntConst(e)
    \/ e.kind = "Variable" /\ e.var_type \in IntegerVarTypes \cup {"F32", "F64"}
\* e is an unsupported node, or an arithmetic or comparison operator over an
\* unsupported node and a plain leaf.
HasUnsupported(e) ==
    \/ e = Bottom
    \/ /\ e.kind \in FlagKinds
       /\ \/ Left(e) = Bottom /\ IsPlainLeaf(Right(e))
          \/ IsPlainLeaf(Left(e)) /\ Right(e) = Bottom

\* C13, as stated: lowering an expression that contains an unsupported node
\* (as the root, or as an operand of an arithmetic operator or a comparison,
\* the other operand being an integer or a float) completes without abort;
\* the unsupported node itself becomes a fresh opaque constant.
C13_UnsupportedNeverFatal ==
    (HasLowered /\ lastOp = Op("t1", "lower") /\ HasUnsupported(LastLowered.expr)) =>
        /\ ~IsFatal(LastLowered.ast)
        /\ alive /\ pc["t1"] = "ready"
        /\ LastLowered.expr = Bottom =>
              /\ LastLowered.ast = Z3_mk_fresh_const(empty_str, any_sort, 0)
              /\ fresh["t1"] = 1

(***************************************************************************)
(* Claims about the shift-overflow predicates, checked under SpecLower.    *)
(***************************************************************************)
IsShiftOverflow(lw) ==
    lw.view = "any" /\ lw.expr.kind \in {"ShlOverflows", "ShrOverflows"}
\* The same predicate on the other shift, another left operand and the type
\* of the same width and the other signedness.
OtherShiftOverflow(e) ==
    Typed(IF e.kind = "ShlOverflows" THEN "ShrOverflows" ELSE "ShlOverflows",
          Bottom, Right(e),
          CASE e.result_type = "I8" -> "U8"
            [] e.result_type = "U8" -> "I8"
            [] e.result_type = "I32" -> "U32"
            [] e.result_type = "U128" -> "I128")

\* C14, as stated: ShlOverflows and ShrOverflows lower to (shift amount >=
\* bit width of the result type) over the integers, whatever the left
\* operand and the signedness: the term is the comparison of the amount's
\* Numeric-View term with the width, and is that of the other shift on any
\* other left operand and on the type of the other signedness.  The
\* lowering aborts if the amount's Numeric-View is float, and only then.
\* For a constant amount the term is true exactly when the amount is at
\* least the width (false for 0..width-1 and for negative amounts).
C14_ShiftOverflows ==
    (HasLowered /\ IsShiftOverflow(LastLowered)) =>
        LET e == LastLowered.expr
            w == bit_length(e.result_type)
            amount == LowerCall("numeric", Right(e), 0, NewContext)
            ast == LastLowered.ast
        IN /\ IsFatal(amount.ast) => ast = amount.ast
           /\ (~IsFatal(amount.ast) /\ amount.f) => ast = Panic
           /\ (~IsFatal(amount.ast) /\ ~amount.f) =>
                 /\ ast = Term("ge", bool_sort,
                               <<amount.ast, Term("num", int_sort, <<>>, w, "", NoFp)>>,
                               0, "", NoFp)
                 /\ ast = LowerCall("any", OtherShiftOverflow(e), 0, NewContext).ast
           /\ IsIntConst(Right(e)) =>
                 Eval(ast, NoEnv, "documented") = (Right(e).val >= w)

(***************************************************************************)
(* Claims about what the Numeric-View returns, checked under SpecLower.    *)
(***************************************************************************)
\* C15: the Numeric-View always returns a number: with the flag false the
\* term is Int-sorted, with the flag true it is float-sorted.  The boolean
\* constants come back as (false, 1) and (false, 0), a boolean node as the
\* integer that is 1 when the node holds and else 0; an overflow predicate,
\* an unrecognised constant or an unsupported node never comes back as a
\* boolean or opaque term tagged non-float.
C15_NumericViewIsNumber ==
    (HasLowered /\ LastLowered.view = "numeric" /\ ~IsFatal(LastLowered.ast)) =>
        LET e == LastLowered.expr
            ast == LastLowered.ast
        IN /\ IF LastLowered.f THEN IsFloatSort(ast.sort) ELSE ast.sort = int_sort
           /\ (e.kind = "CompileTimeConstant" /\ e.cd = "True") =>
                 (ast = Z3_mk_int(1, int_sort) /\ ~LastLowered.f)
           /\ (e.kind = "CompileTimeConstant" /\ e.cd = "False") =>
                 (ast = Z3_mk_int(0, int_sort) /\ ~LastLowered.f)
           /\ e.kind \in BooleanKinds =>
                 /\ ~LastLowered.f
                 /\ ast = Z3_mk_ite(LowerCall("any", e, 0, NewContext).ast,
                                    Z3_mk_int(1, int_sort), Z3_mk_int(0, int_sort))

(***************************************************************************)
(* SpecViews: one session in which thread t1 lowers, asserts and solves    *)
(* predicates over the i8 variable x: comparisons, which read x through    *)
(* the Numeric-View, and overflow predicates, which read it through the    *)
(* Bit-Vector-View.                                                        *)
(***************************************************************************)
VarI8 == Variable("x", "I8")
ViewPredicates ==
    { Binary("Equals", VarI8, Const("I128", c)) : c \in {1, 5} }
      \cup { Typed("AddOverflows", VarI8, Const("I128", c), "I8") : c \in {2, 127} }
      \cup { Typed("SubOverflows", VarI8, Const("I128", 2), "I8") }

NextViews ==
    \/ \E e \in ViewPredicates : Lower("t1", "smt", e, 0)
    \/ assert("t1")
    \/ Solve("t1")

SpecViews == Init /\ [][NextViews]_vars

IsComparisonOfX(term) ==
    \E e \in ViewPredicates :
        e.kind \in BooleanKinds /\ term = get_as_smt_predicate(e, NewContext).ast
IsOverflowOfX(term) ==
    \E e \in ViewPredicates :
        e.kind \in OverflowKinds /\ term = get_as_smt_predicate(e, NewContext).ast

\* C16: the Bit-Vector-View of a Variable is a solver constant other than
\* the one the Numeric-View and the Any-View give the same path, so a
\* constraint on one does not bind the other: with x == 1 asserted for the
\* i8 variable x, the asserted AddOverflows(x, 2) is still satisfiable.  In
\* general the comparisons in force and the overflow predicates in force
\* are satisfiable together exactly when each group is, and solve() answers
\* Unsatisfiable only if one group is unsatisfiable on its own.
C16_BvVariableUnlinked ==
    LET comparisons == { c \in InForce(stack["t1"]) : IsComparisonOfX(c) }
        overflows == { o \in InForce(stack["t1"]) : IsOverflowOfX(o) }
        XEquals1 == get_as_smt_predicate(Binary("Equals", VarI8, Const("I128", 1)), NewContext).ast
        XPlus2Overflows ==
            get_as_smt_predicate(Typed("AddOverflows", VarI8, Const("I128", 2), "I8"), NewContext).ast
    IN /\ get_as_bv_z3_ast(VarI8, 8, NewContext).ast # get_as_z3_ast(VarI8, NewContext).ast
       /\ get_as_bv_z3_ast(VarI8, 8, NewContext).ast # get_as_numeric_z3_ast(VarI8, NewContext).ast
       /\ Symbols(get_as_bv_z3_ast(VarI8, 8, NewContext).ast)
            \cap Symbols(get_as_numeric_z3_ast(VarI8, NewContext).ast) = {}
       /\ \A c \in comparisons, o \in overflows : Symbols(c) \cap Symbols(o) = {}
       /\ \A lib \in Libraries :
            /\ Satisfiable(comparisons \cup overflows, lib)
                 = (Satisfiable(comparisons, lib) /\ Satisfiable(overflows, lib))
            /\ (lastOp = Op("t1", "solve") /\ verdict["t1"].result = "Unsatisfiable") =>
                   (~Satisfiable(comparisons, lib) \/ ~Satisfiable(overflows, lib))
            /\ InForce(stack["t1"]) = {XEquals1, XPlus2Overflows} =>
                   /\ Satisfiable(InForce(stack["t1"]), lib)
                   /\ lastOp = Op("t1", "solve") => verdict["t1"].result # "Unsatisfiable"

\* solve() has answered Satisfiable with x == 1 and AddOverflows(x, 2)
\* both asserted.
C16_Witness ==
    /\ lastOp = Op("t1", "solve")
    /\ verdict["t1"].result = "Satisfiable"
    /\ InForce(stack["t1"]) =
         { get_as_smt_predicate(Binary("Equals", VarI8, Const("I128", 1)), NewContext).ast,
           get_as_smt_predicate(Typed("AddOverflows", VarI8, Const("I128", 2), "I8"), NewContext).ast }

(***************************************************************************)
(* Claims about operand sorts and constants, checked under SpecLower.      *)
(***************************************************************************)
\* C17: at a binary arithmetic or comparison node whose operands' is-float
\* flags are equal, the two operand terms the Numeric-View returned have
\* the same solver sort: also for an f32 operand next to an f64 one, and
\* for an integer operand next to an overflow predicate or an unsupported
\* node.
C17_EqualFlagsEqualSorts ==
    (HasLowered /\ IsFlagNode(LastLowered) /\ OperandsLowered(LastLowered.expr)
       /\ LeftNumeric(LastLowered.expr).f = RightNumeric(LastLowered.expr).f) =>
        LeftNumeric(LastLowered.expr).ast.sort = RightNumeric(LastLowered.expr).ast.sort

\* C18: Char constants are encoded injectively over the whole code-point
\* range, above 0xFFFF included: the term of a Char constant is the integer
\* numeral of its code point, and Equals over two different Char constants
\* is false, so solve() on it asserted never answers Satisfiable.
C18_CharInjective ==
    (HasLowered /\ LastLowered.view = "any" /\ LastLowered.expr.kind = "Equals"
       /\ Left(LastLowered.expr).cd = "Char" /\ Right(LastLowered.expr).cd = "Char") =>
        LET c1 == Left(LastLowered.expr)
            c2 == Right(LastLowered.expr)
        IN /\ get_as_z3_ast(c1, NewContext).ast = Z3_mk_int(c1.val, int_sort)
           /\ get_as_z3_ast(c2, NewContext).ast = Z3_mk_int(c2.val, int_sort)
           /\ c1.val # c2.val =>
                 /\ get_as_z3_ast(c1, NewContext).ast # get_as_z3_ast(c2, NewContext).ast
                 /\ ~Eval(LastLowered.ast, NoEnv, "documented")
                 /\ SolvedLast => verdict["t1"].result # "Satisfiable"
====
